---- MODULE Spec2Model ----
(***************************************************************************)
(* Multi-strategy fetch orchestrator of url-to-markdown-pro                *)
(* (strategies/mod.ts with its adapters).  One fetchWithStrategies call    *)
(* is a frame; the googlenews adapter opens a nested frame for the decoded *)
(* URL.  Adapters advance one await at a time, so every interleaving of    *)
(* the concurrent adapters of a race is a behaviour of the model.          *)
(***************************************************************************)
EXTENDS Integers, Sequences, FiniteSets, TLC

\* ---------------------------------------------------------------- bounds
\* Deepest nesting of fetchWithStrategies frames (googlenews recursion).
MaxDepth == 3

Depths == 1..MaxDepth

\* ------------------------------------------------------------ strategies
Strategy ==
    {"direct", "googlebot", "facebookbot", "bingbot", "archive", "12ft",
     "jina", "exa", "googlenews"}

PARALLEL_STRATEGIES == <<"direct", "googlebot", "facebookbot", "bingbot">>

FALLBACK_STRATEGIES == <<"12ft", "archive", "jina", "exa">>

Range(seq) == {seq[i] : i \in DOMAIN seq}

\* Values the strategy option takes: a Strategy, "" for an absent option,
\* and "auto".
StrategyInputs == Strategy \cup {"", "auto"}

\* ------------------------------------------------------------------ URLs
\* A URL is its text cut into tokens; url.includes(x) is a token search.
UrlPlain == <<"https://", "example.com", "/a">>

UrlGoogleNews == <<"https://", "news.google.com", "/rss/articles/", "X">>

UrlRssOtherHost == <<"https://", "feeds.example.com", "/rss/articles/", "X">>

UrlGoogleNewsRead == <<"https://", "news.google.com", "/read/", "X">>

Urls == {UrlPlain, UrlGoogleNews, UrlGoogleNewsRead, UrlRssOtherHost}

\* URLs the Google-News decoder hands to the recursive call.
DecodedUrls == {UrlPlain}

includes(url, token) == \E i \in DOMAIN url : url[i] = token

Host(url) == url[2]

PathTokens(url) == {url[i] : i \in 3..Len(url)}

\* --------------------------------------------------------------- content
NoPos == -1

BLOCKED_WINDOW == 5000

PAYWALL_WINDOW == 10000

GOOGLE_ERROR_WINDOW == 3000

\* An HTML body: its length, the offset of the first anti-bot, paywall and
\* Google-Search-error pattern (NoPos when absent), and whether it holds
\* one of the literal words the 12ft adapter looks for.
Html(len, block, pay, gerr, word) ==
    [def |-> TRUE, len |-> len, block |-> block, pay |-> pay, gerr |-> gerr, word |-> word]

UndefHtml == [def |-> FALSE, len |-> 0, block |-> NoPos, pay |-> NoPos, gerr |-> NoPos, word |-> FALSE]

Clean(len) == Html(len, NoPos, NoPos, NoPos, FALSE)

BlockedPage == Html(20000, 100, NoPos, NoPos, FALSE)

LateBlockPage == Html(20000, 6000, NoPos, NoPos, FALSE)

PaywalledPage == Html(20000, NoPos, 300, NoPos, FALSE)

GoogleErrorPage == Html(20000, NoPos, NoPos, 50, FALSE)

\* Bodies an origin serves to direct and to the three bot adapters.
OriginHtmls ==
    {Clean(0), Clean(9999), Clean(10000), BlockedPage, LateBlockPage, PaywalledPage,
     GoogleErrorPage}

\* Bodies the 12ft proxy serves.
TwelveftHtmls ==
    {Clean(1000), Clean(1001), Html(800, 100, NoPos, NoPos, TRUE),
     Html(1500, NoPos, NoPos, NoPos, TRUE), GoogleErrorPage}

\* Bodies the Wayback Machine serves.
ArchiveHtmls ==
    {Clean(0), Clean(1000), Clean(1001), Clean(10000), Clean(10001), BlockedPage,
     PaywalledPage}

\* A Markdown text: the length of a leading "Title: ... Markdown Content:"
\* preamble (0 when there is none) and the length of what follows it.
Md(pre, body) == [def |-> TRUE, pre |-> pre, body |-> body]

UndefMd == [def |-> FALSE, pre |-> 0, body |-> 0]

Markdowns ==
    {Md(0, n) : n \in {0, 40, 100, 101}} \cup {Md(60, n) : n \in {0, 100, 500}}

MdLength(m) == m.pre + m.body

\* JavaScript truthiness of an optional string.
TruthyHtml(h) == h.def /\ h.len > 0

TruthyMd(m) == m.def /\ MdLength(m) > 0

\* ------------------------------------------------------------ validators
isBlocked(html) == html.block # NoPos /\ html.block < BLOCKED_WINDOW

isPaywalled(html) == html.pay # NoPos /\ html.pay < PAYWALL_WINDOW

isGoogleErrorPage(html) == html.gerr # NoPos /\ html.gerr < GOOGLE_ERROR_WINDOW

\* --------------------------------------------------------------- results
\* Error messages are token sequences; <<>> is an undefined error.
NoError == <<>>

\* htmlKey / mdKey: whether the object has the property ("x" in result).
Fail(s, err) ==
    [success |-> FALSE, strategy |-> s, html |-> UndefHtml, htmlKey |-> FALSE,
     markdown |-> UndefMd, mdKey |-> FALSE, error |-> err]

OkHtml(s, h) ==
    [success |-> TRUE, strategy |-> s, html |-> h, htmlKey |-> TRUE,
     markdown |-> UndefMd, mdKey |-> FALSE, error |-> NoError]

OkMd(s, m) ==
    [success |-> TRUE, strategy |-> s, html |-> UndefHtml, htmlKey |-> FALSE,
     markdown |-> m, mdKey |-> TRUE, error |-> NoError]

\* result.markdown.replace(/^Title:[\s\S]*?Markdown Content:\n+/i, "")
StripPreamble(m) == [m EXCEPT !.pre = 0]

\* ---------------------------------------------------------------- state
NoSession == "null"

SessionIds == {"s1"}

VARIABLES
    calls,          \* one frame per fetchWithStrategies invocation, by depth
    mcpSessionId,   \* exa.ts: process-wide MCP session id
    urlCache,       \* core/conversion.ts: the Map, as its entries in insertion order
    now,            \* the value of Date.now()
    conv,           \* one record per handleConversion call, by caller
    requests,       \* how many URLs callers have asked for so far
    sessions,       \* mcp streamable transport: the entries of the sessions Map
    lastRequest,    \* observer: when each session id was last sent in a request
    nextSweep,      \* when the cleanup interval fires next
    extraction,     \* jsonld.ts: a document given to extractFromJsonLd and what it returned
    decoding,       \* utils.ts: a response given to decodeResponse and the decoder it used
    mcpServers,     \* server entry: the keys of the mcpServers Map
    sseSessions,    \* deno-sse.ts: the keys of its sessions Map
    sseReply,       \* the answer to the latest POST /mcp/message
    fetchUrls       \* mcp/tools.ts: one call of the fetch_urls tool

vars ==
    <<calls, mcpSessionId, urlCache, now, conv, requests, sessions, lastRequest,
      nextSweep, extraction, decoding, mcpServers, sseSessions, sseReply, fetchUrls>>

\* The state of the front ends: charset decoder, SSE tables, fetch_urls.
frontVars == <<decoding, mcpServers, sseSessions, sseReply, fetchUrls>>

\* The variables of the conversion facade: the URL cache in insertion
\* order, the clock Date.now() reads, the handleConversion calls, and the
\* number of URLs requested so far.
convVars == <<urlCache, now, conv, requests>>

NoOutcome ==
    [success |-> FALSE, html |-> UndefHtml, markdown |-> UndefMd, strategy |-> "",
     error |-> NoError, attempts |-> <<>>]

\* Frame of a call that has not been made.  task: where each adapter of
\* the call stands; promise: state of its promise in the current race;
\* exaSession: while initMcpSession reads the body of the call's own
\* initialize response, what the mcp-session-id header of that response
\* held; "none" at any other time.
\* invoked, races and firstValid are observers: how often executeStrategy
\* ran each adapter, which races were started, and the adapter that first
\* completed a race (or the archive step of the Google-News branch) with a
\* result the documented validation accepts.
IdleFrame ==
    [pc |-> "idle", url |-> <<>>, bypass |-> FALSE, strategy |-> "",
     attempts |-> <<>>,
     task |-> [s \in Strategy |-> "none"],
     promise |-> [s \in Strategy |-> "none"],
     outcome |-> NoOutcome,
     invoked |-> [s \in Strategy |-> 0],
     exaSession |-> "none",
     races |-> {},
     firstValid |-> [primary |-> "none", fallback |-> "none", gnArchive |-> "none"]]

\* ------------------------------------------------------ conversion state
\* handleConversion calls that may be in flight together.
MaxCallers == 2

Callers == 1..MaxCallers

\* const CACHE_TTL = 10 * 60 * 1000
CACHE_TTL == 600000

\* "if (urlCache.size >= 100)"
CACHE_LIMIT == 100

\* Last instant of the clock the model looks at.
MaxClock == 600001

NoData == [content |-> <<>>, strategy |-> "", contentType |-> ""]

\* A caller that has not called handleConversion.  started: the adapters
\* fetchWithStrategies launched for the call before its first await.
IdleConv ==
    [pc |-> "idle", url |-> <<>>, useCache |-> FALSE, strategy |-> "",
     jsonFormat |-> FALSE, started |-> {}, startTime |-> 0, elapsed |-> 0, fromCache |-> FALSE,
     result |-> NoData, error |-> NoError]

\* ------------------------------------------- streamable transport state
\* Session ids clients send in the X-Session-Id header.
StreamableIds == {"a"}

\* Ids crypto.randomUUID() hands to requests that send no header.
Uuids == {"u"}

\* A request without the X-Session-Id header.
NoHeader == "undefined"

\* const SESSION_TTL = 30 * 60 * 1000
SESSION_TTL == 1800000

\* setInterval(..., 60000)
SWEEP_INTERVAL == 60000

\* Firings of the cleanup interval the model looks at.
MaxSweeps == 32

\* The sessions Map with the time each id last came in a request, and
\* the next firing of the cleanup interval.
transportVars == <<sessions, lastRequest, nextSweep>>

\* ------------------------------------------------------- JSON-LD state
\* JSON values, as far as extractFromJsonLd tells them apart.
Undefined == [t |-> "undefined"]

Null == [t |-> "null"]

Str(s) == [t |-> "string", v |-> s]

Num(n) == [t |-> "number", v |-> n]

Obj(name) == [t |-> "object", name |-> name]

Arr(items) == [t |-> "array", items |-> items]

\* extractFromJsonLd returned null.
NoLdResult == [def |-> FALSE, title |-> Str(""), len |-> 0, author |-> Str(""), date |-> Str("")]

\* No document has been given to extractFromJsonLd.
NoExtraction == [pc |-> "none", items |-> <<>>, result |-> NoLdResult]

\* -------------------------------------------------------- front-end state
\* No response has been given to decodeResponse.
NoDecoding == [pc |-> "none", contentType |-> <<>>, body |-> <<>>, decoder |-> ""]

\* No POST /mcp/message has been answered.
NoReply == [id |-> "", status |-> 0, error |-> <<>>]

\* fetch_urls has not been called.  i: the loop variable; promise: the
\* state of the handleConversion promise of each URL of the current batch;
\* results: the results array.  launched is an observer: the positions of
\* the URLs whose conversion has been started.
IdleTool ==
    [pc |-> "idle", urls |-> <<>>, i |-> 0, promise |-> <<>>, results |-> <<>>,
     launched |-> <<>>]

Init ==
    /\ calls = [d \in Depths |-> IdleFrame]
    /\ mcpSessionId = NoSession
    /\ urlCache = <<>>
    /\ now = 0
    /\ conv = [c \in Callers |-> IdleConv]
    /\ requests = 0
    /\ sessions = {}
    /\ lastRequest = [id \in StreamableIds \cup Uuids |-> 0]
    /\ nextSweep = SWEEP_INTERVAL
    /\ extraction = NoExtraction
    /\ decoding = NoDecoding
    /\ mcpServers = {}
    /\ sseSessions = {}
    /\ sseReply = NoReply
    /\ fetchUrls = IdleTool

\* ---------------------------------------------------- orchestrator parts
\* First await of each adapter; fetchWithExa reads mcpSessionId before it.
FirstPhase(s, sid) ==
    CASE s = "archive" -> "check_fetch"
      [] s = "exa" -> IF sid = NoSession THEN "init_fetch" ELSE "call_fetch"
      [] s = "googlenews" -> "decode"
      [] OTHER -> "fetch"

\* executeStrategy(url, s) called: the adapter runs up to its first await.
Launch(f, s, sid) ==
    [f EXCEPT !.task[s] = FirstPhase(s, sid), !.invoked[s] = @ + 1]

\* strategies.map(async (strategy) => ...) of a race: all adapters start.
LaunchRace(f, seq, sid) ==
    [f EXCEPT
        !.task = [s \in Strategy |-> IF s \in Range(seq) THEN FirstPhase(s, sid) ELSE f.task[s]],
        !.invoked = [s \in Strategy |-> IF s \in Range(seq) THEN f.invoked[s] + 1 ELSE f.invoked[s]],
        !.promise = [s \in Strategy |-> IF s \in Range(seq) THEN "pending" ELSE f.promise[s]]]

createResult(result, strategy, attempts) ==
    IF result.mdKey
    THEN [success |-> result.success, html |-> UndefHtml, markdown |-> result.markdown,
          strategy |-> strategy, error |-> result.error, attempts |-> attempts]
    ELSE [success |-> result.success, html |-> result.html, markdown |-> UndefMd,
          strategy |-> strategy, error |-> result.error, attempts |-> attempts]

Return(f, out) == [f EXCEPT !.pc = "returned", !.outcome = out]

\* attempts.push({ strategy, error: result.error })
Push(f, s, result) ==
    [f EXCEPT !.attempts = Append(@, [strategy |-> s, error |-> result.error])]

\* attempts.map(a => `${a.strategy}: ${a.error}`).join("; ")
RECURSIVE JoinAttempts(_)
JoinAttempts(attempts) ==
    IF attempts = <<>> THEN <<>>
    ELSE LET a == Head(attempts)
             one == <<a.strategy, ": ">> \o (IF a.error = NoError THEN <<"undefined">> ELSE a.error)
         IN IF Len(attempts) = 1 THEN one
            ELSE one \o <<"; ">> \o JoinAttempts(Tail(attempts))

AllFailed(f) ==
    Return(f,
        [success |-> FALSE, html |-> UndefHtml, markdown |-> UndefMd, strategy |-> "direct",
         error |-> <<"All strategies failed. Attempts: ">> \o JoinAttempts(f.attempts),
         attempts |-> f.attempts])

\* Faulty variant of fetchParallelAccepts: the SPA length test is left out.
fetchParallelAcceptsNoLength(result) ==
    LET html == IF result.htmlKey THEN result.html ELSE UndefHtml
    IN \/ result.mdKey /\ TruthyMd(result.markdown) /\ MdLength(result.markdown) > 100
       \/ /\ result.success
          /\ ~isBlocked(html) /\ ~isPaywalled(html) /\ ~isGoogleErrorPage(html)

\* The validation inside fetchParallel's map callback: TRUE when the
\* callback returns the result, FALSE when it throws.
fetchParallelAccepts(result) ==
    LET html == IF result.htmlKey THEN result.html ELSE UndefHtml
    IN \/ result.mdKey /\ TruthyMd(result.markdown) /\ MdLength(result.markdown) > 100
       \/ /\ result.success
          /\ ~isBlocked(html) /\ ~isPaywalled(html) /\ ~isGoogleErrorPage(html)
          /\ ~(html.len < 10000)

\* Faulty variant of fetchParallelFallbackAccepts: the three validators are
\* not consulted.
fetchParallelFallbackAcceptsUnchecked(result) ==
    \/ result.mdKey /\ TruthyMd(result.markdown) /\ MdLength(result.markdown) > 100
    \/ /\ result.htmlKey /\ TruthyHtml(result.html) /\ result.html.len > 1000
       /\ result.success

\* The validation inside fetchParallelFallback's map callback.
fetchParallelFallbackAccepts(result) ==
    \/ result.mdKey /\ TruthyMd(result.markdown) /\ MdLength(result.markdown) > 100
    \/ /\ result.htmlKey /\ TruthyHtml(result.html) /\ result.html.len > 1000
       /\ result.success
       /\ ~isBlocked(result.html) /\ ~isPaywalled(result.html)
       /\ ~isGoogleErrorPage(result.html)

\* Faulty variant of StartFallbackRace: the fallback race is not run.
SkipFallbackRace(f, sid) == AllFailed(f)

\* fetchParallelFallback(url, FALLBACK_STRATEGIES) is called.
StartFallbackRace(f, sid) ==
    [LaunchRace(f, FALLBACK_STRATEGIES, sid) EXCEPT !.pc = "fallback", !.races = @ \cup {"fallback"}]

\* fetchParallel(url, PARALLEL_STRATEGIES) is called.
StartPrimaryRace(f, sid) ==
    [LaunchRace(f, PARALLEL_STRATEGIES, sid) EXCEPT !.pc = "primary", !.races = @ \cup {"primary"}]

\* Faulty variant of BypassBranch: the bypass flag is not tested.
BypassBranchAlwaysRaces(f, sid) ==
    IF ~includes(f.url, "news.google.com")
    THEN StartPrimaryRace(f, sid)
    ELSE StartFallbackRace(f, sid)

\* From "if (!bypass)" on: the direct-only branch, the primary race, or,
\* when the URL mentions news.google.com, straight to the fallback race.
BypassBranch(f, sid) ==
    IF ~f.bypass
    THEN [Launch(f, "direct", sid) EXCEPT !.pc = "direct_only"]
    ELSE IF ~includes(f.url, "news.google.com")
         THEN StartPrimaryRace(f, sid)
         ELSE StartFallbackRace(f, sid)

\* Faulty variant of isGoogleNewsUrl: every URL is taken for a Google-News URL.
isGoogleNewsUrlAlways(url) == url = url

\* "url.includes("news.google.com") || url.includes("/rss/articles/")"
isGoogleNewsUrl(url) == includes(url, "news.google.com") \/ includes(url, "/rss/articles/")

\* What the documented validation of the primary race accepts: a
\* successful result whose HTML has at least 10 000 characters and is
\* flagged by none of the three validators.
PassesPrimaryValidation(result) ==
    /\ result.success /\ result.html.def /\ result.html.len >= 10000
    /\ ~isBlocked(result.html) /\ ~isPaywalled(result.html) /\ ~isGoogleErrorPage(result.html)

\* What the documented validation of the fallback race accepts.
PassesFallbackValidation(result) ==
    \/ result.markdown.def /\ MdLength(result.markdown) > 100
    \/ /\ result.success /\ result.html.def /\ result.html.len > 1000
       /\ ~isBlocked(result.html) /\ ~isPaywalled(result.html) /\ ~isGoogleErrorPage(result.html)

\* What the Google-News branch documents for its archive step.
PassesGoogleNewsArchive(result) ==
    result.success /\ result.html.def /\ result.html.len > 10000

\* Faulty variant of AllRejected: one rejection is taken for all.
SomeRejected(f, seq) == \E t \in Range(seq) : f.promise[t] = "rejected"

\* Promise.any rejects: every promise of the race has rejected.
AllRejected(f, seq) == \A t \in Range(seq) : f.promise[t] = "rejected"

\* An adapter of the running race settles its promise; Promise.any and the
\* code after "await fetchParallel(...)" / "await fetchParallelFallback(...)".
SettleRace(f, s, result, sid) ==
    IF f.pc = "primary"
    THEN LET g == [f EXCEPT !.firstValid.primary =
                        IF @ = "none" /\ PassesPrimaryValidation(result) THEN s ELSE @]
         IN IF fetchParallelAccepts(result)
            THEN LET w == [g EXCEPT !.promise[s] = "fulfilled"]
                 IN IF result.success
                    THEN Return(w, createResult(result, result.strategy, w.attempts))
                    ELSE StartFallbackRace(w, sid)
            ELSE LET l == [g EXCEPT !.promise[s] = "rejected"]
                 IN IF AllRejected(l, PARALLEL_STRATEGIES)
                    THEN StartFallbackRace(l, sid)
                    ELSE l
    ELSE LET g == [f EXCEPT !.firstValid.fallback =
                        IF @ = "none" /\ PassesFallbackValidation(result) THEN s ELSE @]
         IN IF fetchParallelFallbackAccepts(result)
            THEN LET w == [g EXCEPT !.promise[s] = "fulfilled"]
                 IN IF result.success
                    THEN Return(w, createResult(result, result.strategy, w.attempts))
                    ELSE AllFailed(w)
            ELSE LET l == [g EXCEPT !.promise[s] = "rejected"]
                 IN IF AllRejected(l, FALLBACK_STRATEGIES)
                    THEN AllFailed(l)
                    ELSE l

InRunningRace(f, s) ==
    /\ f.promise[s] = "pending"
    /\ \/ f.pc = "primary" /\ s \in Range(PARALLEL_STRATEGIES)
       \/ f.pc = "fallback" /\ s \in Range(FALLBACK_STRATEGIES)

\* Faulty variant of archiveAccepted: the threshold has a digit too many.
archiveAcceptedTypo(result) ==
    result.success /\ TruthyHtml(result.html) /\ result.html.len > 100000

\* The Google-News branch's test of the archive result.
archiveAccepted(result) ==
    result.success /\ TruthyHtml(result.html) /\ result.html.len > 10000

\* Faulty variant of isExplicit: "direct" is taken for the default.
isExplicitExceptDirect(strategy) ==
    strategy # "" /\ strategy # "custom" /\ strategy # "auto" /\ strategy # "direct"

\* "if (strategy && strategy !== "custom" && strategy !== "auto")"
isExplicit(strategy) == strategy # "" /\ strategy # "custom" /\ strategy # "auto"

\* Adapter s of frame f returns result: the code of fetchWithStrategies
\* that runs after the await it was started from.  An adapter whose race
\* is over, or whose frame has returned, has nobody waiting for it.
Complete(f, s, result, sid) ==
    LET f1 == [f EXCEPT !.task[s] = "done"]
        f2 == Push(f1, s, result)
        f3 == [f2 EXCEPT !.firstValid.gnArchive =
                    IF PassesGoogleNewsArchive(result) THEN "archive" ELSE @]
    IN IF f.pc = "explicit" /\ s = f.strategy
       THEN Return(f2, createResult(result, f.strategy, f2.attempts))
       ELSE IF f.pc = "gn_archive" /\ s = "archive"
       THEN IF archiveAccepted(result)
            THEN Return(f3, createResult(result, "archive", f3.attempts))
            ELSE [Launch(f3, "googlenews", sid) EXCEPT !.pc = "gn_decoder"]
       ELSE IF f.pc = "gn_decoder" /\ s = "googlenews"
       THEN IF result.success
            THEN Return(f2, createResult(result, "googlenews", f2.attempts))
            ELSE BypassBranch([f2 EXCEPT !.bypass = TRUE], sid)
       ELSE IF f.pc = "direct_only" /\ s = "direct"
       THEN Return(f2, createResult(result, "direct", f2.attempts))
       ELSE IF InRunningRace(f, s)
       THEN SettleRace(f1, s, result, sid)
       ELSE f1

\* fetchWithStrategies from its entry to its first await.
Enter(url, bypass, strategy, sid) ==
    LET f0 == [IdleFrame EXCEPT !.url = url, !.bypass = bypass, !.strategy = strategy]
    IN IF isExplicit(strategy)
       THEN [Launch(f0, strategy, sid) EXCEPT !.pc = "explicit"]
       ELSE IF isGoogleNewsUrl(url)
       THEN [Launch(f0, "archive", sid) EXCEPT !.pc = "gn_archive"]
       ELSE BypassBranch(f0, sid)

\* -------------------------------------------------------- adapter steps
\* One await of an adapter: it either moves to its next await or returns
\* a result.
Goto(ph) == [done |-> FALSE, phase |-> ph, result |-> Fail("", NoError)]

Done(result) == [done |-> TRUE, phase |-> "done", result |-> result]

\* Phases in which an adapter awaits response.text(), .json() or
\* .arrayBuffer(): it has started to read an HTTP body.
BodyPhases == {"body", "check_json", "web_body", "snap_body", "init_body", "call_body"}

\* Faulty variant of Thrown: the await is outside the adapter's try block,
\* so the exception leaves the adapter.
ThrownUncaught(s) ==
    [done |-> TRUE, phase |-> "raised", result |-> Fail(s, <<"network error">>)]

\* fetch(), the body read or JSON parsing throws inside the adapter's try
\* block: the catch block returns a failure with the error's message.
Thrown(s) == Done(Fail(s, <<"network error">>))

\* fetchWithStrategies awaits adapter s outside any race.
AwaitedAlone(f, s) ==
    \/ f.pc = "explicit" /\ s = f.strategy
    \/ f.pc = "gn_archive" /\ s = "archive"
    \/ f.pc = "gn_decoder" /\ s = "googlenews"
    \/ f.pc = "direct_only" /\ s = "direct"

\* An exception leaves adapter s.  fetchWithStrategies has no try block,
\* so an adapter it awaits alone takes the whole call down; in a race the
\* map callback rejects, which is what a rejected result does.
Raise(f, s, result, sid) ==
    IF AwaitedAlone(f, s)
    THEN [f EXCEPT !.pc = "raised", !.task[s] = "done"]
    ELSE Complete(f, s, result, sid)

ApplyStep(d, s, o) ==
    calls' = [calls EXCEPT ![d] =
        IF o.phase = "raised" THEN Raise(calls[d], s, o.result, mcpSessionId)
        ELSE IF o.done THEN Complete(calls[d], s, o.result, mcpSessionId)
                       ELSE [calls[d] EXCEPT !.task[s] = o.phase]]

\* await fetch(url, ...) of the adapters that expect text/html.
HtmlFetchOutcomes(s, httpError, typeError) ==
    {Thrown(s), Done(Fail(s, httpError)), Done(Fail(s, typeError)), Goto("body")}

directBody(html) ==
    IF isBlocked(html) THEN Fail("direct", <<"Blocked by Cloudflare or anti-bot">>)
    ELSE IF isPaywalled(html) THEN Fail("direct", <<"Paywall detected">>)
    ELSE OkHtml("direct", html)

fetchDirect(d) ==
    /\ calls[d].task["direct"] \in {"fetch", "body"}
    /\ \E o \in (IF calls[d].task["direct"] = "fetch"
                 THEN HtmlFetchOutcomes("direct", <<"HTTP ", "500">>,
                                        <<"Invalid content type: ", "application/json">>)
                 ELSE {Thrown("direct")} \cup {Done(directBody(h)) : h \in OriginHtmls}) :
          ApplyStep(d, "direct", o)
    /\ UNCHANGED <<mcpSessionId, convVars, transportVars, extraction, frontVars>>

\* googlebot.ts, facebookbot.ts and bingbot.ts differ in request headers only.
BotStep(d, s) ==
    /\ calls[d].task[s] \in {"fetch", "body"}
    /\ \E o \in (IF calls[d].task[s] = "fetch"
                 THEN HtmlFetchOutcomes(s, <<"HTTP ", "500", ": ", "Internal Server Error">>,
                                        <<"Invalid content type: ", "application/json">>)
                 ELSE {Thrown(s)} \cup {Done(OkHtml(s, h)) : h \in OriginHtmls}) :
          ApplyStep(d, s, o)
    /\ UNCHANGED <<mcpSessionId, convVars, transportVars, extraction, frontVars>>

fetchWithGooglebot(d) == BotStep(d, "googlebot")

fetchWithFacebookbot(d) == BotStep(d, "facebookbot")

fetchWithBingbot(d) == BotStep(d, "bingbot")

twelveftBody(html) ==
    IF html.word THEN Fail("12ft", <<"12ft.io rate limited or blocked">>)
    ELSE OkHtml("12ft", html)

fetchWith12ft(d) ==
    /\ calls[d].task["12ft"] \in {"fetch", "body"}
    /\ \E o \in (IF calls[d].task["12ft"] = "fetch"
                 THEN HtmlFetchOutcomes("12ft", <<"12ft.io error: ", "500">>,
                                        <<"Invalid content type from 12ft: ", "application/json">>)
                 ELSE {Thrown("12ft")} \cup {Done(twelveftBody(h)) : h \in TwelveftHtmls}) :
          ApplyStep(d, "12ft", o)
    /\ UNCHANGED <<mcpSessionId, convVars, transportVars, extraction, frontVars>>

JINA_MIN_LENGTH == 50

jinaBody(markdown) ==
    IF ~TruthyMd(markdown) \/ MdLength(markdown) < JINA_MIN_LENGTH
    THEN Fail("jina", <<"Jina returned empty or too short content">>)
    ELSE OkMd("jina", markdown)

\* executeStrategy's post-processing of a jina or exa result.
executeStrategyStrip(result) ==
    IF result.success /\ TruthyMd(result.markdown)
    THEN [result EXCEPT !.markdown = StripPreamble(@)]
    ELSE result

fetchWithJina(d) ==
    /\ calls[d].task["jina"] \in {"fetch", "body"}
    /\ \E o \in (IF calls[d].task["jina"] = "fetch"
                 THEN {Thrown("jina"), Done(Fail("jina", <<"Jina API error: ", "500">>)),
                       Goto("body")}
                 ELSE {Thrown("jina")}
                      \cup {Done(executeStrategyStrip(jinaBody(m))) : m \in Markdowns}) :
          ApplyStep(d, "jina", o)
    /\ UNCHANGED <<mcpSessionId, convVars, transportVars, extraction, frontVars>>

\* What the availability API says about the closest snapshot.
SnapshotAnswers == {"absent", "200", "404"}

ArchiveOutcomes(ph) ==
    CASE ph = "check_fetch" ->
            {Thrown("archive"), Done(Fail("archive", <<"Archive API error: ", "500">>)),
             Goto("check_json")}
      [] ph = "check_json" ->
            {Thrown("archive")}
            \cup {Goto(IF snap = "200" THEN "snap_fetch" ELSE "web_fetch") :
                    snap \in SnapshotAnswers}
      [] ph = "web_fetch" ->
            {Thrown("archive"), Done(Fail("archive", <<"No archive snapshot available">>)),
             Goto("web_body")}
      [] ph = "snap_fetch" ->
            {Thrown("archive"), Done(Fail("archive", <<"Failed to fetch archive: ", "500">>)),
             Goto("snap_body")}
      [] OTHER ->
            {Thrown("archive")} \cup {Done(OkHtml("archive", h)) : h \in ArchiveHtmls}

fetchFromArchive(d) ==
    /\ calls[d].task["archive"] \in
          {"check_fetch", "check_json", "web_fetch", "snap_fetch", "web_body", "snap_body"}
    /\ \E o \in ArchiveOutcomes(calls[d].task["archive"]) : ApplyStep(d, "archive", o)
    /\ UNCHANGED <<mcpSessionId, convVars, transportVars, extraction, frontVars>>

\* ------------------------------------------------------------------- exa
\* One await of fetchWithExa.  write: the step assigns mcpSessionId, and
\* sid is the value it assigns.
ExaGoto(ph, write, sid) ==
    [done |-> FALSE, phase |-> ph, result |-> Fail("", NoError), write |-> write, sid |-> sid]

ExaDone(result, write, sid) ==
    [done |-> TRUE, phase |-> "done", result |-> result, write |-> write, sid |-> sid]

ExaInitFailed == ExaDone(Fail("exa", <<"Failed to initialize Exa MCP session">>), FALSE, NoSession)

\* The catch block of fetchWithExa: the session id is reset.
ExaCaught(msg) == ExaDone(Fail("exa", msg), TRUE, NoSession)

\* Results fetchWithExa builds from a tools/call result it could read.
ExaParsed ==
    {Fail("exa", <<"No content returned from Exa">>),
     Fail("exa", <<"Exa returned zero results">>),
     Fail("exa", <<"Exa crawl failed: ", "error">>),
     Fail("exa", <<"Exa timeout in text response">>)}
    \cup {[OkMd("exa", m) EXCEPT !.mdKey = TRUE] : m \in Markdowns \cup {UndefMd}}

ExaOutcomes(ph, current) ==
    CASE ph = "init_fetch" ->
            \* initMcpSession: fetch throws, or the response header is stored
            {ExaInitFailed}
            \cup {ExaGoto("init_body", TRUE, h) : h \in SessionIds \cup {NoSession}}
      [] ph = "init_body" ->
            \* text() throws, JSON.parse throws or serverInfo is missing;
            \* serverInfo present; no data line: mcpSessionId !== null
            {ExaInitFailed, ExaGoto("call_fetch", FALSE, NoSession)}
            \cup (IF current # NoSession THEN {} ELSE {ExaInitFailed})
      [] ph = "call_fetch" ->
            \* callMcpTool: fetch throws, or a new session id is stored
            {ExaCaught(<<"network error">>), ExaGoto("call_body", FALSE, NoSession)}
            \cup {ExaGoto("call_body", TRUE, h) : h \in SessionIds}
      [] OTHER ->
            \* text() throws, no data line, JSON.parse throws, data.error
            {ExaCaught(<<"network error">>), ExaCaught(<<"Invalid MCP response format">>),
             ExaCaught(<<"rpc error">>)}
            \cup {ExaDone(executeStrategyStrip(r), FALSE, NoSession) : r \in ExaParsed}

\* The await of fetchWithExa in frame d ends with outcome o.
fetchWithExaStep(d, o) ==
    /\ mcpSessionId' = IF o.write THEN o.sid ELSE mcpSessionId
    /\ calls' = [calls EXCEPT ![d] =
          LET f == [calls[d] EXCEPT
                        !.exaSession = IF o.phase = "init_body" THEN o.sid ELSE "none"]
          IN IF o.done THEN Complete(f, "exa", o.result, mcpSessionId')
                       ELSE [f EXCEPT !.task["exa"] = o.phase]]
    /\ UNCHANGED <<convVars, transportVars, extraction, frontVars>>

fetchWithExa(d) ==
    /\ calls[d].task["exa"] \in {"init_fetch", "init_body", "call_fetch", "call_body"}
    /\ \E o \in ExaOutcomes(calls[d].task["exa"], mcpSessionId) : fetchWithExaStep(d, o)

\* ------------------------------------------------------------ googlenews
\* fetchWithGoogleNews up to the recursive call: the decoder throws or
\* yields something that is not an http URL (both end in the catch block),
\* or yields a URL and fetchWithStrategies(decodedUrl, {bypass: true}) starts.
fetchWithGoogleNewsDecodeTo(d, decodedUrls) ==
    /\ calls[d].task["googlenews"] = "decode"
    /\ \/ \E msg \in {<<"decoder error">>, <<"Decoded URL is invalid: ", "null">>} :
            calls' = [calls EXCEPT ![d] =
                Complete(calls[d], "googlenews",
                         Fail("googlenews", <<"Google News Decode Failed: ">> \o msg),
                         mcpSessionId)]
       \/ /\ d < MaxDepth
          /\ calls[d + 1].pc = "idle"
          /\ \E decodedUrl \in decodedUrls :
                calls' = [calls EXCEPT ![d].task["googlenews"] = "inner",
                                       ![d + 1] = Enter(decodedUrl, TRUE, "", mcpSessionId)]
    /\ UNCHANGED <<mcpSessionId, convVars, transportVars, extraction, frontVars>>

\* The decoder yields a publisher's URL.
fetchWithGoogleNewsDecode(d) == fetchWithGoogleNewsDecodeTo(d, DecodedUrls)

\* Mapping of the inner MultiStrategyResult to the adapter's result.
googleNewsResult(inner) ==
    IF inner.success
    THEN [success |-> TRUE, strategy |-> "googlenews-" \o inner.strategy,
          html |-> inner.html, htmlKey |-> TRUE,
          markdown |-> inner.markdown, mdKey |-> TRUE, error |-> inner.error]
    ELSE Fail("googlenews",
              IF inner.error # NoError THEN inner.error ELSE <<"Failed to fetch decoded URL">>)

\* What fetchWithGoogleNews returns once the inner call is over: the
\* mapped outcome, or the catch block's failure if the inner call raised.
googleNewsSettled(inner) ==
    IF inner.pc = "raised"
    THEN Fail("googlenews", <<"Google News Decode Failed: ", "network error">>)
    ELSE googleNewsResult(inner.outcome)

\* The inner fetchWithStrategies call has returned to fetchWithGoogleNews.
fetchWithGoogleNewsReturn(d) ==
    /\ d < MaxDepth
    /\ calls[d].task["googlenews"] = "inner"
    /\ calls[d + 1].pc \in {"returned", "raised"}
    /\ calls' = [calls EXCEPT ![d] =
            Complete(calls[d], "googlenews", googleNewsSettled(calls[d + 1]),
                     mcpSessionId)]
    /\ UNCHANGED <<mcpSessionId, convVars, transportVars, extraction, frontVars>>

\* ------------------------------------------------------------- top level
\* A caller invokes fetchWithStrategies(url, {bypass, strategy}).
fetchWithStrategies(url, bypass, strategy) ==
    /\ calls[1].pc = "idle"
    /\ calls' = [calls EXCEPT ![1] = Enter(url, bypass, strategy, mcpSessionId)]
    /\ UNCHANGED <<mcpSessionId, convVars, transportVars, extraction, frontVars>>

Next ==
    \/ \E url \in Urls, bypass \in BOOLEAN, strategy \in StrategyInputs :
          fetchWithStrategies(url, bypass, strategy)
    \/ \E d \in Depths : fetchDirect(d)
    \/ \E d \in Depths : fetchWithGooglebot(d)
    \/ \E d \in Depths : fetchWithFacebookbot(d)
    \/ \E d \in Depths : fetchWithBingbot(d)
    \/ \E d \in Depths : fetchWith12ft(d)
    \/ \E d \in Depths : fetchWithJina(d)
    \/ \E d \in Depths : fetchFromArchive(d)
    \/ \E d \in Depths : fetchWithExa(d)
    \/ \E d \in Depths : fetchWithGoogleNewsDecode(d)
    \/ \E d \in Depths : fetchWithGoogleNewsReturn(d)

Spec == Init /\ [][Next]_vars

\* ------------------------------------------------- servers that stay silent
\* Phases in which an adapter awaits fetch(): no request carries a signal
\* or a timeout, so the await ends only when the server answers.
FetchPhases ==
    {"fetch", "check_fetch", "web_fetch", "snap_fetch", "init_fetch", "call_fetch"}

\* The server never answers the request adapter s of frame d has sent: the
\* adapter stays at its await for good.
Hang(d, s) ==
    /\ calls[d].task[s] \in FetchPhases
    /\ calls' = [calls EXCEPT ![d].task[s] = "hung"]
    /\ UNCHANGED <<mcpSessionId, convVars, transportVars, extraction, frontVars>>

\* Calls for a plain URL, by explicit strategy or by the tiered flow, with
\* servers that may stay silent.
NextUnanswered ==
    \/ \E bypass \in BOOLEAN, strategy \in StrategyInputs \ {"googlenews"} :
          fetchWithStrategies(UrlPlain, bypass, strategy)
    \/ fetchDirect(1)
    \/ fetchWithGooglebot(1)
    \/ fetchWithFacebookbot(1)
    \/ fetchWithBingbot(1)
    \/ fetchWith12ft(1)
    \/ fetchWithJina(1)
    \/ fetchFromArchive(1)
    \/ fetchWithExa(1)
    \/ \E s \in Strategy : Hang(1, s)

SpecUnanswered == Init /\ [][NextUnanswered]_vars

\* ------------------------------------------------- concurrent exa calls
\* Two requests in flight together, each an explicit fetchWithStrategies
\* call with strategy "exa"; a frame whose call is over takes the next one.
fetchWithStrategiesConcurrently(d, url, strategy) ==
    /\ calls[d].pc \in {"idle", "returned"}
    /\ calls' = [calls EXCEPT ![d] = Enter(url, FALSE, strategy, mcpSessionId)]
    /\ UNCHANGED <<mcpSessionId, convVars, transportVars, extraction, frontVars>>

NextExa ==
    \/ \E d \in Depths : fetchWithStrategiesConcurrently(d, UrlPlain, "exa")
    \/ \E d \in Depths : fetchWithExa(d)

SpecExa == Init /\ [][NextExa]_vars

\* ------------------------------------------- a decoder that yields anything
\* The decoder may also yield a Google-News URL.  Of the services, only
\* archive.org and Jina answer.
RedirectingDecodedUrls == {UrlPlain, UrlGoogleNews}

NextRedirect ==
    \/ \E bypass \in BOOLEAN : fetchWithStrategies(UrlGoogleNews, bypass, "")
    \/ \E d \in Depths : fetchFromArchive(d)
    \/ \E d \in Depths : fetchWithJina(d)
    \/ \E d \in Depths : fetchWithGoogleNewsDecodeTo(d, RedirectingDecodedUrls)
    \/ \E d \in Depths : fetchWithGoogleNewsReturn(d)

SpecRedirect == Init /\ [][NextRedirect]_vars

\* ====================================================== conversion facade
\* A string that is not a URL, and the n-th of a series of distinct URLs.
UrlInvalid == <<"not a url">>

UrlNumbered(n) == <<"https://", "example.com", "/", ToString(n)>>

IsAbsoluteHttpUrl(url) == Len(url) >= 2 /\ url[1] \in {"http://", "https://"}

\* ------------------------------------------------------------- URL cache
\* urlCache.set(url, { data, timestamp })
Entry(url, data, t) == [url |-> url, data |-> data, timestamp |-> t]

\* urlCache.keys(), in insertion order
Keys(cache) == [i \in DOMAIN cache |-> cache[i].url]

has(cache, url) == \E i \in DOMAIN cache : cache[i].url = url

IndexOf(cache, url) == CHOOSE i \in DOMAIN cache : cache[i].url = url

\* urlCache.delete(url)
delete(cache, url) == SelectSeq(cache, LAMBDA e : e.url # url)

Miss(cache) == [cache |-> cache, hit |-> FALSE, data |-> NoData]

\* Faulty variant of getCached: the age of the entry is not tested.
getCachedNoExpiry(cache, url, t) ==
    IF ~has(cache, url) THEN Miss(cache)
    ELSE [cache |-> cache, hit |-> TRUE, data |-> cache[IndexOf(cache, url)].data]

\* getCached(url) at time t: the cache it leaves and what it returns.
getCached(cache, url, t) ==
    IF ~has(cache, url) THEN Miss(cache)
    ELSE LET entry == cache[IndexOf(cache, url)]
         IN IF t - entry.timestamp > CACHE_TTL
            THEN Miss(delete(cache, url))
            ELSE [cache |-> cache, hit |-> TRUE, data |-> entry.data]

\* urlCache.set(url, ...): a new key goes last, an existing key keeps its place.
set(cache, url, data, t) ==
    IF has(cache, url)
    THEN [cache EXCEPT ![IndexOf(cache, url)] = Entry(url, data, t)]
    ELSE Append(cache, Entry(url, data, t))

\* Faulty variant of setCache: nothing is dropped from a full cache.
setCacheUnbounded(cache, url, data, t) == set(cache, url, data, t)

\* setCache(url, data) at time t.  "if (oldest)": a key that is the empty
\* string is not dropped.
setCache(cache, url, data, t) ==
    IF Len(cache) >= CACHE_LIMIT
    THEN set(IF cache[1].url # <<>> THEN Tail(cache) ELSE cache, url, data, t)
    ELSE set(cache, url, data, t)

\* The variant of the module whose cache is switched off.
getCachedDisabled(cache, url, t) == Miss(cache)

setCacheDisabled(cache, url, data, t) == cache

\* ------------------------------------------------------- handleConversion
\* What fetchHtmlWithStrategies can resolve to for a call.  A string that
\* is not a URL is fetched by nobody: every adapter reports a failure.
FetchResults(url, strategy) ==
    IF ~IsAbsoluteHttpUrl(url)
    THEN {createResult(Fail(IF strategy = "" THEN "direct" ELSE strategy,
                            <<"network error">>),
                       IF strategy = "" THEN "direct" ELSE strategy, <<>>)}
    ELSE IF strategy = "jina"
    THEN {createResult(OkMd("jina", Md(0, 500)), "jina", <<>>),
          createResult(OkMd("jina", Md(0, 600)), "jina", <<>>),
          createResult(Fail("jina", <<"Jina API error: ", "500">>), "jina", <<>>)}
    ELSE {createResult(OkHtml("direct", Clean(10000)), "direct", <<>>),
          createResult(OkHtml("direct", Clean(0)), "direct", <<>>),
          createResult(Fail("direct", NoError), "direct", <<>>)}

Failed(err) == [ok |-> FALSE, result |-> NoData, error |-> err]

\* The entry built from a text of the given kind and length: the text
\* itself, or JSON.stringify of an envelope around it.
Built(kind, len, strategy, jsonFormat) ==
    [ok |-> TRUE, error |-> NoError,
     result |-> [content |-> [kind |-> kind, len |-> len, envelope |-> jsonFormat],
                 strategy |-> strategy,
                 contentType |-> IF jsonFormat THEN "application/json"
                                 ELSE "text/plain; charset=utf-8"]]

\* What extractFromJsonLd(html) returns: null, or a result whose content
\* has len characters.
NoJsonLd == [def |-> FALSE, len |-> 0]

JsonLd(len) == [def |-> TRUE, len |-> len]

\* "if (body.length < 200) continue"
JSONLD_MIN_BODY == 200

\* "jsonLd.content.length > 500"
JSONLD_SUFFICIENT == 500

JsonLdResults ==
    {NoJsonLd} \cup {JsonLd(n) : n \in {JSONLD_MIN_BODY, JSONLD_SUFFICIENT, JSONLD_SUFFICIENT + 1}}

\* "if (jsonLd && jsonLd.content.length > 500)"
jsonLdUsed(jsonLd) == jsonLd.def /\ jsonLd.len > JSONLD_SUFFICIENT

\* handleConversion from the fetch result to "let result": the entry it
\* builds or the error it throws.  jsonLd: what extractFromJsonLd returns
\* for the HTML; extracted: whether generateMarkdownText or
\* generateJsonData returns rather than throws.
buildResult(fetchResult, jsonLd, extracted, jsonFormat) ==
    IF ~fetchResult.success
    THEN Failed(IF fetchResult.error # NoError THEN fetchResult.error
                ELSE <<"Failed to fetch content">>)
    ELSE IF TruthyMd(fetchResult.markdown)
    THEN Built("markdown", MdLength(fetchResult.markdown), fetchResult.strategy, jsonFormat)
    ELSE IF TruthyHtml(fetchResult.html)
    THEN IF jsonLdUsed(jsonLd)
         THEN Built("jsonld", jsonLd.len, fetchResult.strategy, jsonFormat)
         ELSE IF extracted
         THEN Built("converted", fetchResult.html.len, fetchResult.strategy, jsonFormat)
         ELSE Failed(<<"Could not parse HTML">>)
    ELSE Failed(<<"No content received from fetch">>)

\* Faulty variant of lookup: the useCache option is not tested.
lookupAlways(cacheEnabled, cache, useCache, url, t) ==
    IF cacheEnabled THEN getCached(cache, url, t) ELSE getCachedDisabled(cache, url, t)

\* "if (useCache) { const cached = getCached(url); ... }"
lookup(cacheEnabled, cache, useCache, url, t) ==
    IF ~useCache THEN Miss(cache)
    ELSE IF cacheEnabled THEN getCached(cache, url, t)
    ELSE getCachedDisabled(cache, url, t)

\* Faulty variant of save: the entry is stored whether or not a result was built.
saveEvenIfFailed(cacheEnabled, cache, useCache, url, r, t) ==
    IF ~useCache THEN cache
    ELSE IF cacheEnabled THEN setCache(cache, url, r.result, t)
    ELSE setCacheDisabled(cache, url, r.result, t)

\* "if (useCache) { setCache(url, result); }", which a throw above skips.
save(cacheEnabled, cache, useCache, url, r, t) ==
    IF ~r.ok \/ ~useCache THEN cache
    ELSE IF cacheEnabled THEN setCache(cache, url, r.result, t)
    ELSE setCacheDisabled(cache, url, r.result, t)

\* handleConversion(url, {useCache, strategy}) from its entry to its
\* return on a hit or to "await fetchHtmlWithStrategies".
handleConversion(c, url, useCache, strategy, jsonFormat, cacheEnabled) ==
    /\ conv[c].pc = "idle"
    /\ LET look == lookup(cacheEnabled, urlCache, useCache, url, now)
           frame == Enter(url, FALSE, strategy, mcpSessionId)
           call == [IdleConv EXCEPT !.url = url, !.useCache = useCache,
                                    !.jsonFormat = jsonFormat,
                                    !.strategy = strategy, !.startTime = now]
       IN /\ urlCache' = look.cache
          /\ conv' = [conv EXCEPT ![c] =
                IF look.hit
                THEN [call EXCEPT !.pc = "returned", !.result = look.data,
                                  !.fromCache = TRUE]
                ELSE [call EXCEPT !.pc = "fetching",
                                  !.started = {s \in Strategy : frame.invoked[s] > 0}]]
    /\ requests' = requests + 1
    /\ UNCHANGED <<now, calls, mcpSessionId, transportVars, extraction, frontVars>>

\* handleConversion from the end of its await to its return or throw.
handleConversionResume(c, fetchResult, jsonLd, extracted, cacheEnabled) ==
    /\ conv[c].pc = "fetching"
    /\ LET r == buildResult(fetchResult, jsonLd, extracted, conv[c].jsonFormat)
       IN /\ urlCache' = save(cacheEnabled, urlCache, conv[c].useCache, conv[c].url, r, now)
          /\ conv' = [conv EXCEPT ![c] =
                IF r.ok
                THEN [@ EXCEPT !.pc = "returned", !.result = r.result,
                               !.elapsed = now - conv[c].startTime]
                ELSE [@ EXCEPT !.pc = "raised", !.error = r.error]]
    /\ UNCHANGED <<now, requests, calls, mcpSessionId, transportVars, extraction, frontVars>>

\* The caller has its response and is free to call again.
respond(c) ==
    /\ conv[c].pc \in {"returned", "raised"}
    /\ conv' = [conv EXCEPT ![c] = IdleConv]
    /\ UNCHANGED <<urlCache, now, requests, calls, mcpSessionId, transportVars, extraction, frontVars>>

\* The instants at which the clock is looked at: a millisecond and the
\* lifetime of a cache entry after the start, and a millisecond after that.
Instants == {0, 1, CACHE_TTL, MaxClock}

\* Time passes until instant t.
Tick(t) ==
    /\ t > now
    /\ now' = t
    /\ UNCHANGED <<urlCache, conv, requests, calls, mcpSessionId, transportVars, extraction, frontVars>>

\* The URL and the strategy option of a call.
ConversionInputs ==
    {<<UrlPlain, "">>, <<UrlPlain, "jina">>, <<UrlInvalid, "jina">>}

\* Calls take the slots of conv in the order they are made.
Conversions(cacheEnabled) ==
    \/ /\ requests < MaxCallers
       /\ \E in \in ConversionInputs, useCache \in BOOLEAN, jsonFormat \in BOOLEAN :
             handleConversion(requests + 1, in[1], useCache, in[2], jsonFormat,
                              cacheEnabled)
    \/ \E c \in Callers, jsonLd \in JsonLdResults, extracted \in BOOLEAN :
          \E fetchResult \in FetchResults(conv[c].url, conv[c].strategy) :
             handleConversionResume(c, fetchResult, jsonLd, extracted, cacheEnabled)
    \/ \E t \in Instants : Tick(t)

\* The module with the cache in use (unnamed/part_007, main.ts).
NextConversion == Conversions(TRUE)

SpecConversion == Init /\ [][NextConversion]_vars

\* The module with the cache switched off (src/core/conversion.ts).
NextConversionNoCache == Conversions(FALSE)

SpecConversionNoCache == Init /\ [][NextConversionNoCache]_vars

\* One caller converts distinct URLs one after the other, every conversion
\* succeeding, until the cache has been full for a while.
MaxRequests == 103

NextFill ==
    \/ /\ requests < MaxRequests
       /\ handleConversion(1, UrlNumbered(requests + 1), TRUE, "jina", FALSE, TRUE)
    \/ handleConversionResume(1, createResult(OkMd("jina", Md(0, 500)), "jina", <<>>),
                              NoJsonLd, TRUE, TRUE)
    \/ respond(1)

SpecFill == Init /\ [][NextFill]_vars

\* ================================================================ claims
Unflagged(html) == ~isBlocked(html) /\ ~isPaywalled(html) /\ ~isGoogleErrorPage(html)

\* The call of frame f returned the winner of its primary race.
PrimaryWon(f) == f.pc = "returned" /\ f.races = {"primary"}

\* C1: in the primary race direct, googlebot, facebookbot and bingbot are
\* all started before any of them completes, and the first of them to
\* complete with a successful result of at least 10 000 characters that no
\* validator flags is the outcome of the call, whichever adapter it is;
\* no other result of the race becomes the outcome.
C1_FirstValidPrimaryWins ==
    \A d \in Depths :
        LET f == calls[d]
        IN /\ "primary" \in f.races =>
                \A s \in Range(PARALLEL_STRATEGIES) : f.invoked[s] = 1 /\ f.task[s] # "none"
           /\ f.firstValid.primary # "none" =>
                /\ PrimaryWon(f)
                /\ f.outcome.strategy = f.firstValid.primary
           /\ PrimaryWon(f) =>
                /\ f.outcome.strategy = f.firstValid.primary
                /\ f.outcome.strategy \in Range(PARALLEL_STRATEGIES)
                /\ f.outcome.success
                /\ f.outcome.html.def /\ f.outcome.html.len >= 10000
                /\ Unflagged(f.outcome.html)

\* A plain URL fetched with bypass: direct completed first with a result
\* the race rejected, googlebot then won, and bingbot is still in flight.
C1_Witness ==
    LET f == calls[1]
    IN /\ f.url = UrlPlain /\ f.bypass /\ f.strategy = ""
       /\ PrimaryWon(f)
       /\ f.promise["direct"] = "rejected"
       /\ f.outcome.strategy = "googlebot"
       /\ f.task["bingbot"] = "fetch"

\* C2: the fallback race of a call that ran the primary race starts only
\* when every primary adapter has completed without a valid result; once
\* a primary adapter has won, no fallback race is started and no adapter
\* of the fallback race is in flight.
C2_FallbackOnlyAfterPrimaryFailed ==
    \A d \in Depths :
        LET f == calls[d]
        IN /\ ("primary" \in f.races /\ "fallback" \in f.races) =>
                /\ f.firstValid.primary = "none"
                /\ \A s \in Range(PARALLEL_STRATEGIES) :
                        f.task[s] = "done" /\ f.promise[s] = "rejected"
           /\ (f.firstValid.primary # "none" \/ PrimaryWon(f)) =>
                /\ "fallback" \notin f.races
                /\ \A s \in Range(FALLBACK_STRATEGIES) : f.task[s] \in {"none", "done"}

\* All four primary adapters failed on a plain URL and the four fallback
\* adapters have just been started.
C2_Witness ==
    LET f == calls[1]
    IN /\ f.url = UrlPlain /\ f.pc = "fallback"
       /\ \A s \in Range(PARALLEL_STRATEGIES) : f.promise[s] = "rejected"
       /\ \A s \in Range(FALLBACK_STRATEGIES) : f.promise[s] = "pending" /\ f.invoked[s] = 1

\* The call of frame f returned the winner of its fallback race.
FallbackWon(f) == f.pc = "returned" /\ "fallback" \in f.races /\ f.outcome.success

HasGoogleNewsHostOrPath(url) ==
    Host(url) = "news.google.com" \/ "/rss/articles/" \in PathTokens(url)

\* C8: for a URL with host news.google.com or /rss/articles/ in its path
\* and no explicit strategy, archive runs first: no other adapter starts
\* before archive has completed; and when archive succeeded with more
\* than 10 000 characters of HTML the call returned with strategy archive
\* and ran neither googlenews nor any primary adapter.
C8_GoogleNewsArchiveFirst ==
    \A d \in Depths :
        LET f == calls[d]
        IN (f.pc # "idle" /\ f.strategy \in {"", "auto"}
                /\ HasGoogleNewsHostOrPath(f.url)) =>
                /\ f.invoked["archive"] >= 1
                /\ (\E s \in Strategy \ {"archive"} : f.invoked[s] > 0) =>
                        /\ f.attempts # <<>>
                        /\ f.attempts[1].strategy = "archive"
                /\ f.firstValid.gnArchive # "none" =>
                        /\ f.pc = "returned"
                        /\ f.outcome.strategy = "archive"
                        /\ f.outcome.success
                        /\ f.invoked = [s \in Strategy |-> IF s = "archive" THEN 1 ELSE 0]

\* archive returned 10 001 characters for a Google-News URL and the call
\* returned them without running any other adapter.
C8_Witness ==
    LET f == calls[1]
    IN /\ f.url = UrlGoogleNews /\ f.strategy = "" /\ f.bypass
       /\ f.pc = "returned"
       /\ f.outcome.strategy = "archive"
       /\ f.outcome.html = Clean(10001)
       /\ f.invoked["googlenews"] = 0

\* C3: once a call has returned, no adapter it left running starts to read
\* an HTTP body and none writes the Exa session id: every step such an
\* adapter takes leaves mcpSessionId alone and does not enter a body read.
C3_LosersCancelled ==
    [][\A d \in Depths : \A s \in Strategy :
            (calls[d].pc = "returned" /\ calls'[d].task[s] # calls[d].task[s]) =>
                /\ calls'[d].task[s] \notin BodyPhases
                /\ mcpSessionId' = mcpSessionId]_vars

\* C5: when both races have failed the call returns success = false with
\* an error that names every adapter the call ran.
C5_AggregatedErrorNamesAttempted ==
    \A d \in Depths :
        LET f == calls[d]
        IN (f.pc = "returned" /\ "fallback" \in f.races /\ ~f.outcome.success) =>
                \A s \in Strategy : f.invoked[s] > 0 => includes(f.outcome.error, s)

\* archive and then googlenews have both failed in the call of frame f.
GoogleNewsBranchFailed(f) ==
    /\ Len(f.attempts) = 2
    /\ f.attempts[2].strategy = "googlenews"
    /\ ~(f.pc = "returned" /\ f.races = {})

\* C9: for a URL with host news.google.com or /rss/articles/ in its path,
\* once archive and googlenews have both failed the call goes on with
\* bypass set and the fallback race only: no primary adapter is run.
C9_GoogleNewsSkipsPrimaryRace ==
    \A d \in Depths :
        LET f == calls[d]
        IN (f.pc # "idle" /\ f.strategy \in {"", "auto"}
                /\ HasGoogleNewsHostOrPath(f.url) /\ GoogleNewsBranchFailed(f)) =>
                /\ f.bypass
                /\ "fallback" \in f.races
                /\ "primary" \notin f.races
                /\ \A s \in Range(PARALLEL_STRATEGIES) : f.invoked[s] = 0

\* The call of frame f, made without an explicit strategy, returned the
\* successful result of googlenews.
GoogleNewsSucceeded(f) ==
    /\ f.pc = "returned" /\ f.races = {} /\ f.outcome.success
    /\ f.strategy \in {"", "auto"}
    /\ Len(f.attempts) = 2
    /\ f.attempts[2].strategy = "googlenews"

\* C10: when googlenews succeeds in the Google-News branch the strategy of
\* the outcome is "googlenews-" followed by the strategy of the outcome of
\* the inner call for the decoded URL.
C10_GoogleNewsStrategyNamesInner ==
    \A d \in 1..(MaxDepth - 1) :
        GoogleNewsSucceeded(calls[d]) =>
            calls[d].outcome.strategy = "googlenews-" \o calls[d + 1].outcome.strategy

\* The call of frame f ran one adapter on request and returned what that
\* adapter returned (googlenews aside, whose content is an inner outcome).
ReturnedAdapterResult(f) ==
    /\ f.pc = "returned"
    /\ isExplicit(f.strategy) /\ f.strategy # "googlenews"

\* C11: a successful adapter result carries non-empty HTML or non-empty
\* Markdown, whatever the remote service answered.
C11_SuccessCarriesContent ==
    \A d \in Depths :
        LET f == calls[d]
        IN (ReturnedAdapterResult(f) /\ f.outcome.success) =>
                TruthyHtml(f.outcome.html) \/ TruthyMd(f.outcome.markdown)

\* C12: no call of fetchWithStrategies ends in an exception, whatever
\* transport failure its adapters meet, and a call that returns without
\* success returns an error string.
C12_NeverRaises ==
    \A d \in Depths :
        LET f == calls[d]
        IN /\ f.pc # "raised"
           /\ (f.pc = "returned" /\ ~f.outcome.success) => f.outcome.error # NoError

\* The archive adapter, requested by name, met a transport failure and the
\* call returned the failure as a record.
C12_Witness ==
    LET f == calls[1]
    IN /\ f.strategy = "archive" /\ f.pc = "returned"
       /\ ~f.outcome.success
       /\ f.outcome.error = <<"network error">>
       /\ f.attempts = <<[strategy |-> "archive", error |-> <<"network error">>]>>

\* C13: a call that has not returned can still return: at least one of its
\* adapters is at an await that will end, even when servers stay silent.
C13_EveryCallCanReturn ==
    \A d \in Depths :
        LET f == calls[d]
        IN f.pc \notin {"idle", "returned", "raised"} =>
                \E s \in Strategy : f.task[s] \notin {"none", "done", "hung"}

\* The instant call c returned.
Finished(c) == conv[c].startTime + conv[c].elapsed

\* Call a fetched and returned with useCache, and call b, for the same URL
\* and with useCache, was made after that.
Successive(a, b) ==
    /\ conv[a].pc = "returned" /\ conv[a].useCache /\ ~conv[a].fromCache
    /\ conv[b].pc # "idle" /\ conv[b].useCache /\ conv[b].url = conv[a].url
    /\ conv[b].startTime > Finished(a)

\* C14: of two successive handleConversion calls for one URL with
\* useCache=true, the second, when made within 10 minutes of the first
\* one's success, returns fromCache=true with the content and strategy the
\* first one stored and without running the orchestrator; when made more
\* than 10 minutes later it is not served from the cache.
C14_SecondCallServedFromCache ==
    \A a, b \in Callers :
        Successive(a, b) =>
            IF conv[b].startTime - Finished(a) <= CACHE_TTL
            THEN /\ conv[b].pc = "returned" /\ conv[b].fromCache
                 /\ conv[b].result = conv[a].result
                 /\ conv[b].started = {}
            ELSE ~conv[b].fromCache

\* The age at instant t of the entry the cache holds for url.
Age(cache, url, t) == t - cache[IndexOf(cache, url)].timestamp

\* C15: no call returns a cached entry older than the 10-minute TTL: a
\* call is served from the cache only by its read, and only an entry whose
\* age is at most the TTL; a read that finds an older entry deletes it and
\* the call goes on to fetch, as on a miss.
C15_NoStaleRead ==
    [][\A c \in Callers :
          LET url == conv'[c].url
          IN /\ (conv'[c].fromCache /\ ~conv[c].fromCache) =>
                    /\ conv[c].pc = "idle" /\ conv'[c].pc = "returned"
                    /\ has(urlCache, url)
                    /\ Age(urlCache, url, now) <= CACHE_TTL
                    /\ conv'[c].result = urlCache[IndexOf(urlCache, url)].data
             /\ (/\ conv[c].pc = "idle" /\ conv'[c].pc # "idle" /\ conv'[c].useCache
                 /\ has(urlCache, url) /\ Age(urlCache, url, now) > CACHE_TTL) =>
                    /\ ~has(urlCache', url)
                    /\ conv'[c].pc = "fetching" /\ conv'[c].started # {}]_vars

\* A call found an entry older than the TTL: the entry is gone and the
\* call is fetching.
C15_Witness ==
    \E a, b \in Callers :
        /\ Successive(a, b) /\ conv[b].startTime - Finished(a) > CACHE_TTL
        /\ conv[b].pc = "fetching" /\ ~has(urlCache, conv[b].url)

C17_UseCacheFalseBypassesCache ==
    [][\A c \in Callers :
          (conv'[c] # conv[c] /\ conv'[c].pc # "idle" /\ ~conv'[c].useCache) =>
             /\ urlCache' = urlCache
             /\ ~conv'[c].fromCache
             /\ conv'[c].started # {}]_vars

\* A call with useCache=false returned something else than the entry the
\* cache holds, still fresh, for its URL.
C17_Witness ==
    \E c \in Callers :
        /\ conv[c].pc = "returned" /\ ~conv[c].useCache
        /\ has(urlCache, conv[c].url)
        /\ urlCache[IndexOf(urlCache, conv[c].url)].timestamp < conv[c].startTime
        /\ Age(urlCache, conv[c].url, conv[c].startTime) <= CACHE_TTL
        /\ urlCache[IndexOf(urlCache, conv[c].url)].data # conv[c].result

\* The fetch result or the extraction leaves handleConversion nothing to return.
NothingToReturn(fetchResult, extracted) ==
    \/ ~fetchResult.success
    \/ ~TruthyMd(fetchResult.markdown) /\ ~TruthyHtml(fetchResult.html)
    \/ ~TruthyMd(fetchResult.markdown) /\ ~extracted

\* C18: only a conversion that succeeded writes the cache: a call whose
\* fetch result has success=false or no content, or whose extraction
\* throws, raises and leaves the cache as it was; every entry that enters
\* the cache is the result a call returns in that step after its fetch;
\* and what a call is served from the cache is such a result.
C18_OnlySuccessIsCached ==
    [][/\ \A c \in Callers, extracted \in BOOLEAN :
             \A fetchResult \in FetchResults(conv[c].url, conv[c].strategy) :
                (/\ handleConversionResume(c, fetchResult, NoJsonLd, extracted, TRUE)
                 /\ NothingToReturn(fetchResult, extracted)) =>
                    conv'[c].pc = "raised"
       /\ \A c \in Callers :
             (conv[c].pc # "raised" /\ conv'[c].pc = "raised") => urlCache' = urlCache
       /\ \A i \in DOMAIN urlCache' :
             urlCache'[i] \notin Range(urlCache) =>
                \E c \in Callers :
                   /\ conv[c].pc = "fetching" /\ conv'[c].pc = "returned"
                   /\ ~conv'[c].fromCache
                   /\ conv'[c].result # NoData
                   /\ urlCache'[i] = Entry(conv'[c].url, conv'[c].result, now)
       /\ \A c \in Callers :
             conv'[c].fromCache => conv'[c].result # NoData]_vars

\* A call with useCache=true raised after another call had cached its
\* result for the same URL: the cache still holds that entry and no other.
C18_Witness ==
    \E a, b \in Callers :
        /\ conv[a].pc = "returned" /\ conv[a].useCache /\ ~conv[a].fromCache
        /\ conv[b].pc = "raised" /\ conv[b].useCache /\ conv[b].url = conv[a].url
        /\ conv[b].error = <<"No content received from fetch">>
        /\ urlCache = <<Entry(conv[a].url, conv[a].result, Finished(a))>>

\* C19: the lookup and the later insert of a call with useCache=true are
\* one critical section: while one call is between its lookup and its
\* insert for a URL, no other call with useCache=true has looked the same
\* URL up and gone on to run the orchestrator for it.
C19_LookupInsertUnderMutex ==
    \A a, b \in Callers :
        (/\ a # b
         /\ conv[a].pc = "fetching" /\ conv[a].useCache
         /\ conv[b].useCache /\ conv[b].url = conv[a].url) =>
            conv[b].pc # "fetching"

\* C20: handleConversion validates the URL at entry: a call with a string
\* that is not an absolute HTTP(S) URL is rejected at once, with no
\* adapter started for it.
C20_InvalidUrlRejectedAtEntry ==
    \A c \in Callers :
        (conv[c].pc # "idle" /\ ~IsAbsoluteHttpUrl(conv[c].url)) =>
            conv[c].pc = "raised" /\ conv[c].started = {}

\* The message handleConversion throws for the fetch result the outermost
\* call returned, <<>> if it throws nothing.
RaisedMessage(f) == buildResult(f.outcome, NoJsonLd, TRUE, FALSE).error

\* handleConversion raises the all-strategies-failed error for the call of frame f.
RaisesAllFailed(f) ==
    /\ f.pc = "returned"
    /\ RaisedMessage(f) # NoError
    /\ Head(RaisedMessage(f)) = "All strategies failed. Attempts: "

\* The call of frame f ran the fallback race without a successful result,
\* after the primary race unless the URL mentions news.google.com.
RacesExhausted(f) ==
    /\ f.pc = "returned" /\ ~f.outcome.success
    /\ "fallback" \in f.races
    /\ \A s \in Range(FALLBACK_STRATEGIES) : f.invoked[s] > 0
    /\ IF includes(f.url, "news.google.com")
       THEN "primary" \notin f.races
       ELSE /\ "primary" \in f.races
            /\ \A s \in Range(PARALLEL_STRATEGIES) : f.invoked[s] > 0

\* C21 as stated: handleConversion raises the all-strategies-failed error
\* only when the call ran both the primary and the fallback race and both
\* were exhausted, and not after a failed explicit strategy.
C21_AllFailedOnlyAfterBothRaces ==
    RaisesAllFailed(calls[1]) =>
        /\ ~isExplicit(calls[1].strategy)
        /\ calls[1].races = {"primary", "fallback"}
        /\ ~calls[1].outcome.success

\* C21 amended: handleConversion raises the all-strategies-failed error
\* only when the fallback race was run without a successful result, after
\* the primary race unless the URL contains news.google.com, in the call
\* itself or in the call googlenews made for the decoded URL; never after
\* a failed no-bypass direct fetch or a successful orchestration.
C21_AllFailedOnlyAfterFallbackRace ==
    RaisesAllFailed(calls[1]) =>
        /\ ~calls[1].outcome.success
        /\ calls[1].attempts = <<>> \/ calls[1].attempts[Len(calls[1].attempts)].strategy # "direct"
        /\ \/ RacesExhausted(calls[1])
           \/ /\ calls[1].invoked["googlenews"] > 0
              /\ calls[1].races = {}
              /\ RacesExhausted(calls[2])

\* A call for a news.google.com URL raised the all-strategies-failed error
\* after the fallback race alone.
C21_Witness ==
    /\ RaisesAllFailed(calls[1])
    /\ includes(calls[1].url, "news.google.com")
    /\ calls[1].races = {"fallback"}
    /\ \A s \in Range(PARALLEL_STRATEGIES) : calls[1].invoked[s] = 0

\* C22: every result handleConversion returns is a JSON envelope with
\* contentType application/json exactly when the call's jsonFormat option
\* is true, and Markdown with contentType text/plain; charset=utf-8
\* otherwise, results served from the cache included.
C22_ContentTypeFollowsJsonFormat ==
    \A c \in Callers :
        conv[c].pc = "returned" =>
            IF conv[c].jsonFormat
            THEN /\ conv[c].result.contentType = "application/json"
                 /\ conv[c].result.content.envelope
            ELSE /\ conv[c].result.contentType = "text/plain; charset=utf-8"
                 /\ ~conv[c].result.content.envelope

\* C23: for an HTML fetch result handleConversion takes the JSON-LD
\* extraction whenever its content has at least 500 characters, without
\* running the readability path (whose exception then cannot matter);
\* without a JSON-LD result, or with a shorter one, the output comes from
\* the readability path.
C23_JsonLdUsedFrom500 ==
    [][\A c \in Callers, jsonLd \in JsonLdResults, extracted \in BOOLEAN :
          \A fetchResult \in FetchResults(conv[c].url, conv[c].strategy) :
             (/\ handleConversionResume(c, fetchResult, jsonLd, extracted, TRUE)
              /\ fetchResult.success
              /\ ~TruthyMd(fetchResult.markdown) /\ TruthyHtml(fetchResult.html)) =>
                IF jsonLd.def /\ jsonLd.len >= 500
                THEN /\ conv'[c].pc = "returned"
                     /\ conv'[c].result.content.kind = "jsonld"
                ELSE conv'[c].pc = "returned" =>
                        conv'[c].result.content.kind = "converted"]_vars

\* C24: attempts records each adapter that completes during the call, the
\* adapters of both races included, in the order of completion: when an
\* adapter completes before the call has returned, it is appended to
\* attempts with its error.
C24_AttemptsRecordCompletions ==
    [][\A d \in Depths : \A s \in Strategy :
          (/\ calls[d].pc \notin {"idle", "returned", "raised"}
           /\ calls[d].task[s] # "done" /\ calls'[d].task[s] = "done"
           /\ calls'[d].pc # "raised") =>
             /\ Len(calls'[d].attempts) = Len(calls[d].attempts) + 1
             /\ calls'[d].attempts[Len(calls'[d].attempts)].strategy = s
             /\ SubSeq(calls'[d].attempts, 1, Len(calls[d].attempts)) = calls[d].attempts]_vars

ExaPhases == {"init_fetch", "init_body", "call_fetch", "call_body"}

\* C25: whenever a fetchWithExa call ends with success = false, the
\* process-wide session id is cleared by that return, so that the next
\* call starts with initialize.
C25_ExaErrorClearsSession ==
    [][\A d \in Depths :
          \A o \in ExaOutcomes(calls[d].task["exa"], mcpSessionId) :
             (/\ calls[d].task["exa"] \in ExaPhases
              /\ fetchWithExaStep(d, o)
              /\ o.done /\ ~o.result.success) =>
                mcpSessionId' = NoSession]_vars

\* C26: concurrent fetchWithExa calls do not harm each other through the
\* shared session id: a call whose own initialize returned a session id
\* sends its tools/call with a session id, and does not fail to initialize,
\* whatever other calls did to the session id in between.
C26_ConcurrentExaHarmless ==
    [][\A d \in Depths :
          (/\ calls[d].task["exa"] = "init_body"
           /\ calls[d].exaSession \in SessionIds
           /\ calls'[d].task["exa"] # "init_body") =>
             /\ calls'[d].task["exa"] = "call_fetch" => mcpSessionId' \in SessionIds
             /\ mcpSessionId \in SessionIds]_vars

\* C27: the googlenews adapter recurses into the orchestrator at most
\* once: the call it makes for the decoded URL never makes a further
\* nested call, whatever the decoder returns.
C27_RecursesAtMostOnce ==
    \A d \in Depths : d > 2 => calls[d].pc = "idle"

ArchivePhases ==
    {"check_fetch", "check_json", "web_fetch", "snap_fetch", "web_body", "snap_body"}

\* C28: fetchFromArchive requests the snapshot URL only after the
\* availability answer has been read, and whenever it reports a failure
\* that no exception caused, it has requested either the snapshot or
\* https://web.archive.org/web/<U>: it does not give up on the
\* availability API's answer alone.
C28_ArchiveTriesWebBeforeFailure ==
    [][\A d \in Depths :
          \A o \in ArchiveOutcomes(calls[d].task["archive"]) :
             (/\ calls[d].task["archive"] \in ArchivePhases
              /\ ApplyStep(d, "archive", o)) =>
                /\ (o.done /\ ~o.result.success /\ o # Thrown("archive")) =>
                      calls[d].task["archive"] \in {"web_fetch", "snap_fetch"}
                /\ (~o.done /\ o.phase = "snap_fetch") =>
                      calls[d].task["archive"] = "check_json"]_vars

\* ============================================ mcp streamable transport
\* The ids that have an entry in the sessions Map.
SessionKeys == {s.id : s \in sessions}

\* "now - session.created > SESSION_TTL" in the cleanup callback.
Expired(session, t) == t - session.created > SESSION_TTL

\* getOrCreateSession(sessionId): the entry of that id when the Map has
\* one, left as it is; else a new entry under the id (a random UUID when
\* no id was sent) with created = Date.now().
getOrCreateSession(sessionId, uuid) ==
    IF sessionId # NoHeader /\ sessionId \in SessionKeys
    THEN sessions
    ELSE sessions \cup {[id |-> IF sessionId # NoHeader THEN sessionId ELSE uuid,
                         created |-> now]}

\* handleStreamableRequest for a POST with a well-formed JSON-RPC body:
\* the session of the X-Session-Id header is looked up or created.  The
\* model keeps one header-less session at a time.
handleStreamableRequest(sessionId) ==
    /\ sessionId = NoHeader => Uuids \ SessionKeys # {}
    /\ LET uuid == CHOOSE u \in Uuids : sessionId = NoHeader => u \notin SessionKeys
           id == IF sessionId # NoHeader THEN sessionId ELSE uuid
       IN /\ sessions' = getOrCreateSession(sessionId, uuid)
          /\ lastRequest' = [lastRequest EXCEPT ![id] = now]
    /\ UNCHANGED <<nextSweep, convVars, calls, mcpSessionId, extraction, frontVars>>

\* The setInterval callback: every entry older than SESSION_TTL is deleted.
Sweep ==
    /\ now = nextSweep
    /\ sessions' = {s \in sessions : ~Expired(s, now)}
    /\ nextSweep' = nextSweep + SWEEP_INTERVAL
    /\ UNCHANGED <<lastRequest, convVars, calls, mcpSessionId, extraction, frontVars>>

\* Time passes until the cleanup interval is due.
AwaitSweep ==
    /\ now < nextSweep
    /\ nextSweep <= MaxSweeps * SWEEP_INTERVAL
    /\ now' = nextSweep
    /\ UNCHANGED <<urlCache, conv, requests, transportVars, calls, mcpSessionId, extraction, frontVars>>

NextSessions ==
    \/ \E sessionId \in StreamableIds \cup {NoHeader} : handleStreamableRequest(sessionId)
    \/ Sweep
    \/ AwaitSweep

SpecSessions == Init /\ [][NextSessions]_vars

\* How long the session has gone without a request carrying its id.
Idle(session) == now - lastRequest[session.id]

\* C29: the periodic sweep removes a streamable-HTTP session only after
\* it has been idle for more than 30 minutes, so a session that keeps
\* receiving requests survives every sweep, and a session that has had no
\* request for more than 30 minutes is gone after the sweep.
C29_SweepRemovesExactlyIdleSessions ==
    [][Sweep => \A s \in sessions : s \notin sessions' <=> Idle(s) > SESSION_TTL]_vars

\* ===================================================== extractFromJsonLd
\* Items of one document the model looks at.
MaxItems == 2

\* JavaScript truthiness.
Truthy(v) ==
    CASE v.t = "undefined" -> FALSE
      [] v.t = "null" -> FALSE
      [] v.t = "string" -> v.v # ""
      [] v.t = "number" -> v.v # 0
      [] OTHER -> TRUE

\* a || b
Or(a, b) == IF Truthy(a) THEN a ELSE b

\* Array.isArray(v)
IsArray(v) == v.t = "array"

\* typeof v === "object": objects, arrays and null.
TypeofObject(v) == v.t \in {"object", "array", "null"}

\* v[0]
First(v) == IF IsArray(v) /\ v.items # <<>> THEN v.items[1] ELSE Undefined

\* v.name: arrays have no such property.
NameOf(v) == IF v.t = "object" THEN v.name ELSE Undefined

\* String(v), for the values the function hands to it.
String(v) ==
    CASE v.t = "string" -> v.v
      [] v.t = "number" -> ToString(v.v)
      [] v.t = "undefined" -> "undefined"
      [] v.t = "null" -> "null"
      [] v.t = "array" -> IF v.items = <<>> THEN "" ELSE "[array]"
      [] OTHER -> "[object Object]"

validTypes == {"Article", "NewsArticle", "BlogPosting", "WebPage", "ReportageNewsArticle"}

\* item["@type"] || "", its first element when it is an array.
ItemType(item) ==
    LET itemType == Or(item.type, Str(""))
    IN IF IsArray(itemType) THEN Or(First(itemType), Str("")) ELSE itemType

\* The item is of a valid type and its trimmed body has 200 characters or more.
Qualifies(item) ==
    /\ ItemType(item).t = "string"
    /\ ItemType(item).v \in validTypes
    /\ ~(item.bodyLen < JSONLD_MIN_BODY)

\* item.headline || item.name || "", its first element when it is an
\* array, as a string.  The texts of the model have no surrounding blanks.
ExtractTitle(item) ==
    LET title == Or(Or(item.headline, item.name), Str(""))
        one == IF IsArray(title) THEN Or(First(title), Str("")) ELSE title
    IN Str(String(one))

\* "Extract author": the three branches in the order of the code.
ExtractAuthor(authorData) ==
    IF TypeofObject(authorData) /\ authorData.t # "null"
    THEN Or(NameOf(authorData), Str(""))
    ELSE IF IsArray(authorData) /\ Truthy(First(authorData))
    THEN LET first == First(authorData)
         IN IF TypeofObject(first) THEN Or(NameOf(first), Str("")) ELSE Str(String(first))
    ELSE IF Truthy(authorData)
    THEN Str(String(authorData))
    ELSE Str("")

\* item.datePublished || item.dateModified || ""
ExtractDate(item) == Or(Or(item.datePublished, item.dateModified), Str(""))

\* Index of the item extractFromJsonLd returns from; 0 when none qualifies.
FirstQualifying(items) ==
    IF \E i \in 1..Len(items) : Qualifies(items[i])
    THEN CHOOSE i \in 1..Len(items) :
            /\ Qualifies(items[i])
            /\ \A j \in 1..(i - 1) : ~Qualifies(items[j])
    ELSE 0

\* extractFromJsonLd(html), html given by the items of its
\* application/ld+json scripts in document order.
extractFromJsonLd(items) ==
    LET i == FirstQualifying(items)
    IN IF i = 0 THEN NoLdResult
       ELSE [def |-> TRUE, title |-> ExtractTitle(items[i]), len |-> items[i].bodyLen,
             author |-> ExtractAuthor(items[i].author), date |-> ExtractDate(items[i])]

ItemTypes == {Undefined, Str("Person"), Str("Article"), Arr(<<Str("NewsArticle")>>)}

BodyLengths == {JSONLD_MIN_BODY - 1, JSONLD_MIN_BODY}

Headlines == {Undefined, Str("Head")}

AuthorValues ==
    {Undefined, Null, Str(""), Str("Ann"), Num(0), Num(7),
     Obj(Undefined), Obj(Str("Ann")),
     Arr(<<>>), Arr(<<Str("Ann")>>), Arr(<<Obj(Str("Ann"))>>), Arr(<<Obj(Undefined)>>),
     Arr(<<Str("Ann"), Str("Bob")>>)}

Items ==
    {[type |-> ty, bodyLen |-> n, headline |-> h, name |-> Str("Name"), author |-> a,
      datePublished |-> Str("2024-01-01"), dateModified |-> Undefined] :
        ty \in ItemTypes, n \in BodyLengths, h \in Headlines, a \in AuthorValues}

RECURSIVE SeqsUpTo(_, _)
SeqsUpTo(S, n) ==
    IF n = 0 THEN {<<>>}
    ELSE LET shorter == SeqsUpTo(S, n - 1)
         IN shorter \cup {Append(q, x) : q \in shorter, x \in S}

Documents == SeqsUpTo(Items, MaxItems) \ {<<>>}

InitJsonLd ==
    /\ calls = [d \in Depths |-> IdleFrame]
    /\ mcpSessionId = NoSession
    /\ urlCache = <<>>
    /\ now = 0
    /\ conv = [c \in Callers |-> IdleConv]
    /\ requests = 0
    /\ sessions = {}
    /\ lastRequest = [id \in StreamableIds \cup Uuids |-> 0]
    /\ nextSweep = SWEEP_INTERVAL
    /\ \E items \in Documents :
          extraction = [pc |-> "given", items |-> items, result |-> NoLdResult]
    /\ decoding = NoDecoding
    /\ mcpServers = {}
    /\ sseSessions = {}
    /\ sseReply = NoReply
    /\ fetchUrls = IdleTool

\* The call extractFromJsonLd(html) on the document given.
extractFromJsonLdCall ==
    /\ extraction.pc = "given"
    /\ extraction' = [extraction EXCEPT !.pc = "returned",
                                        !.result = extractFromJsonLd(extraction.items)]
    /\ UNCHANGED <<convVars, transportVars, calls, mcpSessionId, frontVars>>

NextJsonLd == extractFromJsonLdCall

SpecJsonLd == InitJsonLd /\ [][NextJsonLd]_vars

\* The item a returned result was taken from.
UsedItem == extraction.items[FirstQualifying(extraction.items)]

\* C30: the author of the result is author.name when author is an object
\* with a name, the first element's name (element an object) or the first
\* element itself (element a string) when author is an array, and the
\* stringified value when author is a non-empty string or a number.
C30_AuthorFromObjectArrayOrScalar ==
    extraction.pc = "returned" /\ extraction.result.def =>
        LET a == UsedItem.author
            first == First(a)
            author == extraction.result.author
        IN /\ a.t = "object" /\ Truthy(a.name) => author = a.name
           /\ IsArray(a) /\ first.t = "object" /\ Truthy(NameOf(first)) => author = first.name
           /\ IsArray(a) /\ first.t = "string" /\ Truthy(first) => author = first
           /\ a.t \in {"string", "number"} /\ Truthy(a) => author = Str(String(a))

\* ======================================================== decodeResponse
\* Texts the decoder searches are sequences of characters.
\* "text/html"
ContentTypeHtml ==
    <<"t", "e", "x", "t", "/", "h", "t", "m", "l">>

\* "text/html; charset=utf-8"
ContentTypeUtf8 ==
    <<"t", "e", "x", "t", "/", "h", "t", "m", "l", ";", " ", "c", "h", "a", "r", "s", "e", "t", "=", "u", "t", "f", "-", "8">>

\* "text/html; charset=gbk"
ContentTypeGbk ==
    <<"t", "e", "x", "t", "/", "h", "t", "m", "l", ";", " ", "c", "h", "a", "r", "s", "e", "t", "=", "g", "b", "k">>

\* "text/html; charset=GB2312"
ContentTypeGB2312 ==
    <<"t", "e", "x", "t", "/", "h", "t", "m", "l", ";", " ", "c", "h", "a", "r", "s", "e", "t", "=", "G", "B", "2", "3", "1", "2">>

\* "text/html; charset=big5"
ContentTypeBig5 ==
    <<"t", "e", "x", "t", "/", "h", "t", "m", "l", ";", " ", "c", "h", "a", "r", "s", "e", "t", "=", "b", "i", "g", "5">>

\* "image/x-rgb"
ContentTypeRgb ==
    <<"i", "m", "a", "g", "e", "/", "x", "-", "r", "g", "b">>

\* response.headers.get("content-type") || "": <<>> stands for no header.
ContentTypes ==
    {<<>>, ContentTypeHtml, ContentTypeUtf8, ContentTypeGbk, ContentTypeGB2312,
     ContentTypeBig5, ContentTypeRgb}

\* toLowerCase on the letters the content types of the model hold in upper case.
LowerChar(c) == IF c = "G" THEN "g" ELSE IF c = "B" THEN "b" ELSE c

toLowerCase(text) == [i \in DOMAIN text |-> LowerChar(text[i])]

\* text.indexOf(pattern), counted from 1; 0 when the pattern does not occur.
indexOf(text, pattern) ==
    LET hits == {i \in 1..(Len(text) - Len(pattern) + 1) :
                    SubSeq(text, i, i + Len(pattern) - 1) = pattern}
    IN IF hits = {} THEN 0 ELSE CHOOSE i \in hits : \A j \in hits : i <= j

\* text.includes(pattern) on sequences of characters.
includesText(text, pattern) == indexOf(text, pattern) # 0

\* text.slice(0, 1000)
HEAD_LENGTH == 1000

\* The three patterns looked for in the head of the decoded text.
CharsetPattern(quote) ==
    IF quote = "" THEN <<"c", "h", "a", "r", "s", "e", "t", "=", "g", "b">>
    ELSE <<"c", "h", "a", "r", "s", "e", "t", "=", quote, "g", "b">>

\* A body: whether its bytes are valid UTF-8, and the one place (if any)
\* where its text says charset=gb: the offset, the quote before gb ("" for
\* none) and whether that place is inside a meta tag.
NoMention == [at |-> NoPos, quote |-> "", inMeta |-> FALSE]

Mentions ==
    {NoMention} \cup
    {[at |-> at, quote |-> q, inMeta |-> m] :
        at \in {0, 500, HEAD_LENGTH - 11, HEAD_LENGTH - 10, HEAD_LENGTH - 9, 3000},
        q \in {"", "\"", "'"}, m \in BOOLEAN}

Bodies == {[utf8 |-> u, mention |-> m] : u \in BOOLEAN, m \in Mentions}

\* head.includes("charset=gb") || head.includes('charset="gb') ||
\* head.includes("charset='gb"), head being the first 1000 characters.
HeadMentionsGb(body) ==
    /\ body.mention # NoMention
    /\ body.mention.at + Len(CharsetPattern(body.mention.quote)) <= HEAD_LENGTH

\* decodeResponse(response): the label of the TextDecoder whose output it returns.
decodeResponse(contentType, body) ==
    IF includesText(toLowerCase(contentType), <<"g", "b">>) THEN "gbk"
    ELSE IF body.utf8
    THEN IF HeadMentionsGb(body) THEN "gbk" ELSE "utf-8"
    ELSE "gbk"

decodeResponseCall(contentType, body) ==
    /\ decoding' = [pc |-> "returned", contentType |-> contentType, body |-> body,
                    decoder |-> decodeResponse(contentType, body)]
    /\ UNCHANGED <<convVars, transportVars, calls, mcpSessionId, extraction,
                   mcpServers, sseSessions, sseReply, fetchUrls>>

NextDecode == \E contentType \in ContentTypes, body \in Bodies : decodeResponseCall(contentType, body)

SpecDecode == Init /\ [][NextDecode]_vars

\* The charset label of a Content-Type header: what follows "charset=" up
\* to the next ";" or the end, in lower case; <<>> when there is none.
CharsetLabel(contentType) ==
    LET text == toLowerCase(contentType)
        key == <<"c", "h", "a", "r", "s", "e", "t", "=">>
        at == indexOf(text, key)
        rest == IF at = 0 THEN <<>> ELSE SubSeq(text, at + Len(key), Len(text))
        stop == indexOf(rest, <<";">>)
    IN IF stop = 0 THEN rest ELSE SubSeq(rest, 1, stop - 1)

StartsWithGb(label) == Len(label) >= 2 /\ SubSeq(label, 1, 2) = <<"g", "b">>

\* A meta tag within the first 1 KiB of the text declares charset=gb.
MetaDeclaresGb(body) ==
    /\ body.mention # NoMention
    /\ body.mention.inMeta
    /\ body.mention.at + Len(CharsetPattern(body.mention.quote)) <= 1024

\* C31: decodeResponse decodes as GBK exactly when the charset label of the
\* Content-Type header starts with gb, or the bytes are valid UTF-8 and a
\* meta tag within the first 1 KiB declares charset=gb, or strict UTF-8
\* decoding fails; in every other case it returns the UTF-8 decoding.
C31_GbkExactlyWhenDeclaredOrInvalid ==
    decoding.pc = "returned" =>
        (decoding.decoder = "gbk" <=>
            \/ StartsWithGb(CharsetLabel(decoding.contentType))
            \/ decoding.body.utf8 /\ MetaDeclaresGb(decoding.body)
            \/ ~decoding.body.utf8)

\* C32: a call of fetchWithStrategies that returns success = true carries
\* the winning adapter's content: HTML or Markdown that is not empty, for
\* a googlenews success the HTML and Markdown of the inner outcome, so
\* that handleConversion does not raise "No content received from fetch".
C32_SuccessCarriesAdapterContent ==
    \A d \in Depths :
        LET f == calls[d]
        IN (f.pc = "returned" /\ f.outcome.success) =>
              /\ TruthyHtml(f.outcome.html) \/ TruthyMd(f.outcome.markdown)
              /\ RaisedMessage(f) # <<"No content received from fetch">>
              /\ (d < MaxDepth /\ GoogleNewsSucceeded(f)) =>
                    /\ f.outcome.html = calls[d + 1].outcome.html
                    /\ f.outcome.markdown = calls[d + 1].outcome.markdown

\* C33 as stated: within one call of fetchWithStrategies every adapter is
\* invoked at most once, archive included.
C33_EachAdapterAtMostOnce ==
    \A d \in Depths, s \in Strategy : calls[d].invoked[s] <= 1

\* C33: within one call of fetchWithStrategies no adapter is invoked more
\* than once, except archive, which is invoked a second time, by the
\* fallback race, for a Google-News URL whose archive and googlenews
\* steps did not produce the outcome.
C33_OnlyArchiveRunsTwice ==
    \A d \in Depths, s \in Strategy :
        LET f == calls[d]
        IN /\ f.invoked[s] <= 2
           /\ f.invoked[s] = 2 =>
                /\ s = "archive"
                /\ includes(f.url, "news.google.com") \/ includes(f.url, "/rss/articles/")
                /\ ~isExplicit(f.strategy)
                /\ "fallback" \in f.races
                /\ Len(f.attempts) >= 2
                /\ f.attempts[1].strategy = "archive"
                /\ f.attempts[2].strategy = "googlenews" /\ f.attempts[2].error # NoError

\* A Google-News URL: archive and googlenews failed, the fallback race
\* ran archive again, and the call has returned.
C33_Witness ==
    LET f == calls[1]
    IN /\ f.pc = "returned" /\ f.url = UrlGoogleNews
       /\ f.invoked["archive"] = 2 /\ f.invoked["googlenews"] = 1
       /\ f.races = {"fallback"}

\* C34: without an explicit strategy and with bypass in effect, the HTML
\* of every successful outcome is flagged by none of isBlocked,
\* isPaywalled and isGoogleErrorPage, the archive result the Google-News
\* branch accepts included.
C34_SuccessfulHtmlIsUnflagged ==
    \A d \in Depths :
        LET f == calls[d]
        IN (/\ f.pc = "returned" /\ ~isExplicit(f.strategy) /\ f.bypass
            /\ f.outcome.success /\ TruthyHtml(f.outcome.html)) =>
                /\ ~isBlocked(f.outcome.html)
                /\ ~isPaywalled(f.outcome.html)
                /\ ~isGoogleErrorPage(f.outcome.html)

\* ================================================= concurrent cache writes
\* Calls after which the second caller makes no request.
MaxSecondCallAt == 2

\* The clock counts the calls made so far and stands still while caller 1
\* fetches.  Caller 1 converts distinct URLs one after the other, as in
\* SpecFill; caller 2 asks once, early, for one of the first two URLs, and
\* its fetch may take any time.
NextRewrite ==
    \/ /\ requests < MaxRequests /\ now = requests
       /\ handleConversion(1, UrlNumbered(requests + 1), TRUE, "jina", FALSE, TRUE)
    \/ /\ requests <= MaxSecondCallAt
       /\ \E n \in 1..2 : handleConversion(2, UrlNumbered(n), TRUE, "jina", FALSE, TRUE)
    \/ \E c \in Callers :
          handleConversionResume(c, createResult(OkMd("jina", Md(0, 500)), "jina", <<>>),
                                 NoJsonLd, TRUE, TRUE)
    \/ respond(1)
    \/ now < requests /\ conv[1].pc # "fetching" /\ now' = now + 1
          /\ UNCHANGED <<urlCache, conv, requests, calls, mcpSessionId, transportVars,
                         extraction, frontVars>>

SpecRewrite == Init /\ [][NextRewrite]_vars

\* The entries of the cache that the step drops for good.
Evicted == {e \in Range(urlCache) : ~has(urlCache', e.url)}

\* C35: when a conversion writes its result to the cache, an entry is
\* removed only if the cache would otherwise hold more than 100 entries,
\* the entry removed has the oldest timestamp, and writing a URL that is
\* cached already removes no other entry.
C35_EvictsOldestOnlyOnOverflow ==
    [][\A c \in Callers :
          (conv[c].pc = "fetching" /\ conv'[c].pc = "returned" /\ conv[c].useCache) =>
             /\ Evicted # {} =>
                   Len(urlCache) + (IF has(urlCache, conv[c].url) THEN 0 ELSE 1) > CACHE_LIMIT
             /\ \A e \in Evicted : \A o \in Range(urlCache) : e.timestamp <= o.timestamp
             /\ has(urlCache, conv[c].url) => Evicted = {}]_vars

\* ======================================================== SSE transport
\* Ids crypto.randomUUID() hands to SSE connections; an id is used once.
SseIds == {"s1", "s2", "s3"}

\* sessionId values of POST /mcp/message: the ids handed out, an id that
\* never was, and "" for a request that names none.
PostedIds == SseIds \cup {"unknown", ""}

\* Bodies of a POST: a JSON-RPC message or something else.
PostedBodies == {"message", "garbage"}

Reply(id, status, error) == [id |-> id, status |-> status, error |-> error]

\* GET /mcp/sse: createSSEResponse stores the session in start(), then
\* createMcpServerForSession stores the server.
connectSSE(id) ==
    /\ id \notin mcpServers
    /\ sseSessions' = sseSessions \cup {id}
    /\ mcpServers' = mcpServers \cup {id}
    /\ UNCHANGED <<sseReply, decoding, fetchUrls, convVars, transportVars, calls,
                   mcpSessionId, extraction>>

\* The client drops the stream: cancel() of the ReadableStream.
cancelStream(id) ==
    /\ id \in mcpServers
    /\ sseSessions' = sseSessions \ {id}
    /\ UNCHANGED <<mcpServers, sseReply, decoding, fetchUrls, convVars, transportVars,
                   calls, mcpSessionId, extraction>>

\* closeSession(sessionId), called by DenoSSETransport.close().
closeSession(id) ==
    /\ id \in mcpServers
    /\ sseSessions' = sseSessions \ {id}
    /\ UNCHANGED <<mcpServers, sseReply, decoding, fetchUrls, convVars, transportVars,
                   calls, mcpSessionId, extraction>>

\* handleSSEMessage(sessionId, body)
handleSSEMessage(id, body) ==
    IF id \notin sseSessions THEN [handled |-> FALSE, error |-> <<"Session not found">>]
    ELSE IF body # "message" THEN [handled |-> FALSE, error |-> <<"parse error">>]
    ELSE [handled |-> TRUE, error |-> <<>>]

\* POST /mcp/message?sessionId=id
postMessage(id, body) ==
    /\ sseReply' =
          IF id = "" THEN Reply(id, 400, <<"Missing sessionId">>)
          ELSE IF id \notin mcpServers
          THEN Reply(id, 404, <<"Session not found. Please reconnect to /mcp/sse">>)
          ELSE LET result == handleSSEMessage(id, body)
               IN IF ~result.handled THEN Reply(id, 400, result.error)
                  ELSE Reply(id, 202, <<>>)
    /\ UNCHANGED <<mcpServers, sseSessions, decoding, fetchUrls, convVars, transportVars,
                   calls, mcpSessionId, extraction>>

NextSse ==
    \/ \E id \in SseIds : connectSSE(id)
    \/ \E id \in SseIds : cancelStream(id)
    \/ \E id \in SseIds : closeSession(id)
    \/ \E id \in PostedIds, body \in PostedBodies : postMessage(id, body)

SpecSse == Init /\ [][NextSse]_vars

\* C36: the SSE server table and the SSE session table hold the same ids
\* after every step, so the id of a cancelled or closed session is in
\* neither, and a POST that names a session which is not open is answered
\* 404 with a "Session not found" error.
C36_SseTablesAgree ==
    [][/\ mcpServers' = sseSessions'
       /\ \A id \in PostedIds \ {""}, body \in PostedBodies :
             (postMessage(id, body) /\ id \notin sseSessions) =>
                /\ sseReply'.status = 404
                /\ sseReply'.error = <<"Session not found. Please reconnect to /mcp/sse">>]_vars

\* ============================================================ fetch_urls
\* const CONCURRENCY = 3
CONCURRENCY == 3

\* URLs of one fetch_urls call in the model (the schema allows 1 to 10).
MaxUrls == 7

Min(a, b) == IF a < b THEN a ELSE b

\* What the handleConversion promise of a URL settles to: a result, an
\* Error with a message, or a reason that has no message.
Fulfilled(url) == [status |-> "fulfilled", content |-> <<"markdown of ", url>>, message |-> <<>>]

Rejected(message) == [status |-> "rejected", content |-> <<>>, message |-> message]

Pending == [status |-> "pending", content |-> <<>>, message |-> <<>>]

Settlements(url) == {Fulfilled(url), Rejected(<<"All strategies failed">>), Rejected(<<>>)}

\* Faulty variant of slice: the batch is all that is left of the list.
sliceRest(urls, i) == SubSeq(urls, i + 1, Len(urls))

\* urls.slice(i, i + CONCURRENCY)
slice(urls, i) == SubSeq(urls, i + 1, Min(i + CONCURRENCY, Len(urls)))

\* batch.map(async (url) => ...): one handleConversion call per URL of
\* the batch, all started before the await.
StartBatch(tool, i) ==
    LET batch == slice(tool.urls, i)
    IN [tool EXCEPT !.pc = "awaiting", !.i = i,
                    !.promise = [k \in 1..Len(batch) |-> Pending],
                    !.launched = @ \o [k \in 1..Len(batch) |-> i + k]]

\* The entry pushed to results for the k-th outcome of the batch.
ResultOf(batch, k, outcome) ==
    IF outcome.status = "fulfilled"
    THEN [url |-> batch[k], success |-> TRUE, content |-> outcome.content, error |-> <<>>]
    ELSE [url |-> batch[k], success |-> FALSE, content |-> <<>>,
          error |-> IF outcome.message # <<>> THEN outcome.message ELSE <<"Unknown error">>]

\* The code after "await Promise.allSettled(...)": the outcomes are pushed
\* in the order of the batch, then the loop goes on or the tool returns.
AfterBatch(tool) ==
    LET batch == slice(tool.urls, tool.i)
        pushed == [tool EXCEPT !.results =
                      @ \o [k \in 1..Len(tool.promise) |-> ResultOf(batch, k, tool.promise[k])]]
        next == tool.i + CONCURRENCY
    IN IF next < Len(tool.urls)
       THEN StartBatch(pushed, next)
       ELSE [pushed EXCEPT !.pc = "returned", !.i = next, !.promise = <<>>]

\* The tool is called with urls.
fetch_urls(urls) ==
    /\ fetchUrls.pc \in {"idle", "returned"}
    /\ fetchUrls' = StartBatch([IdleTool EXCEPT !.urls = urls], 0)
    /\ UNCHANGED <<decoding, mcpServers, sseSessions, sseReply, convVars, transportVars,
                   calls, mcpSessionId, extraction>>

\* The conversion of the k-th URL of the batch settles; when it is the
\* last of the batch, Promise.allSettled resolves and the handler goes on.
settleConversion(k, outcome) ==
    /\ fetchUrls.pc = "awaiting"
    /\ k \in DOMAIN fetchUrls.promise
    /\ fetchUrls.promise[k] = Pending
    /\ LET tool == [fetchUrls EXCEPT !.promise[k] = outcome]
       IN fetchUrls' =
             IF \A j \in DOMAIN tool.promise : tool.promise[j] # Pending
             THEN AfterBatch(tool)
             ELSE tool
    /\ UNCHANGED <<decoding, mcpServers, sseSessions, sseReply, convVars, transportVars,
                   calls, mcpSessionId, extraction>>

UrlLists == {[k \in 1..n |-> UrlNumbered(k)] : n \in 1..MaxUrls}

NextTool ==
    \/ \E urls \in UrlLists : fetch_urls(urls)
    \/ \E k \in DOMAIN fetchUrls.promise :
          \E outcome \in Settlements(slice(fetchUrls.urls, fetchUrls.i)[k]) :
             settleConversion(k, outcome)

SpecTool == Init /\ [][NextTool]_vars

\* The positions, within the batch, of the conversions still in flight.
InFlight == {k \in DOMAIN fetchUrls.promise : fetchUrls.promise[k] = Pending}

\* At most three conversions are in flight; the conversions launched so
\* far are those of the URLs up to the end of the current batch, each
\* once and in input order, and every URL before the batch has its entry
\* in results; the results are those of the input URLs in input order, one
\* for each URL once the tool has returned.
BatchesInOrder ==
    /\ Cardinality(InFlight) <= 3
    /\ fetchUrls.launched = [p \in 1..Len(fetchUrls.launched) |-> p]
    /\ fetchUrls.pc = "awaiting" =>
          /\ Len(fetchUrls.results) = fetchUrls.i
          /\ Len(fetchUrls.launched) = fetchUrls.i + Len(fetchUrls.promise)
          /\ Len(fetchUrls.launched) <= Len(fetchUrls.results) + 3
    /\ \A p \in DOMAIN fetchUrls.results :
          p <= Len(fetchUrls.urls) /\ fetchUrls.results[p].url = fetchUrls.urls[p]
    /\ fetchUrls.pc = "returned" =>
          /\ Len(fetchUrls.results) = Len(fetchUrls.urls)
          /\ Len(fetchUrls.launched) = Len(fetchUrls.urls)

\* When the last conversion of a batch settles, each URL of the batch gets
\* the entry of its own outcome: the content of a fulfilled conversion, an
\* error for a rejected one, whatever the other conversions did; the
\* entries of earlier batches stay.
ResultsFollowOutcomes ==
    \A k \in DOMAIN fetchUrls.promise :
        \A outcome \in Settlements(fetchUrls.urls[fetchUrls.i + k]) :
            LET all == [fetchUrls.promise EXCEPT ![k] = outcome]
            IN (settleConversion(k, outcome) /\ InFlight = {k}) =>
                  /\ SubSeq(fetchUrls'.results, 1, Len(fetchUrls.results)) = fetchUrls.results
                  /\ \A j \in DOMAIN all :
                        LET r == fetchUrls'.results[fetchUrls.i + j]
                        IN /\ r.url = fetchUrls.urls[fetchUrls.i + j]
                           /\ r.success <=> all[j].status = "fulfilled"
                           /\ r.success => r.content = all[j].content
                           /\ ~r.success => r.error # <<>>

\* C37: fetch_urls has at most 3 conversions in flight, starts a batch
\* only after every conversion of the previous batch has settled, and
\* returns exactly one result per input URL in input order; a conversion
\* that fails is reported as an error for its own URL and neither fails
\* nor drops the results of the other URLs.
C37_BatchesOfThreeResultsInOrder ==
    [][BatchesInOrder' /\ ResultsFollowOutcomes]_vars

\* Seven URLs were fetched in three batches: the second conversion was
\* rejected with a message, the fifth without one, the others succeeded.
C37_Witness ==
    /\ fetchUrls.pc = "returned" /\ Len(fetchUrls.urls) = MaxUrls
    /\ Len(fetchUrls.results) = MaxUrls
    /\ \A p \in 1..MaxUrls : fetchUrls.results[p].success <=> p \notin {2, 5}
    /\ fetchUrls.results[2].error = <<"All strategies failed">>
    /\ fetchUrls.results[5].error = <<"Unknown error">>
    /\ fetchUrls.results[7].content = <<"markdown of ", UrlNumbered(7)>>

====
